---- MODULE Spec2Model ----
(***************************************************************************)
(* State-machine model of the instrument configuration of                  *)
(* stpsf/stpsf_core.py: the validated setters of SpaceTelescopeInstrument, *)
(* JWInstrument, MIRI, NIRCam, NIRSpec, NIRISS and FGS, and the aperture / *)
(* detector / pixel-scale synchronisation they cascade into.               *)
(*                                                                         *)
(* Conventions                                                             *)
(*   - Python None is the value None below.                                *)
(*   - names are strings; upper(), slicing, split() and substring tests    *)
(*     are computed character by character.                                *)
(*   - pixel scales are integers in units of 1e-5 arcsec/pixel, angles in  *)
(*     units of 1e-3 degree.                                               *)
(*   - pixel coordinates handed to the detector_position setter are in     *)
(*     half pixels (1024.5 is 2049); the setter's int() truncates them.    *)
(*   - a setter returns a record [c |-> configuration, err |-> error tag]; *)
(*     err = NoErr on normal return; on an exception c is the state the    *)
(*     object was left in when the exception was raised.                   *)
(***************************************************************************)
EXTENDS Integers, Sequences, FiniteSets, TLC

VARIABLES cfg, last, pinned, failed, ops, calls, repeated,
          options, osys, sam_ok,
          siaf_cache, loads, thread,
          result

vars == <<cfg, last, pinned, failed, ops, calls, repeated, options, osys, sam_ok,
          siaf_cache, loads, thread, result>>

\* the variables of the optical system assembly
opticsVars == <<options, osys, sam_ok>>

\* the variables of the cache of geometry tables
siafVars == <<siaf_cache, loads, thread>>

\* what the assembly of the optical system leaves alone
rest == <<siafVars, result>>

\* what the configuration calls leave alone
aux == <<opticsVars, rest>>

\* the variables of the instrument object, and the result of the last call
object == <<cfg, last, pinned, failed, ops, repeated>>

None == "<None>"
NoErr == "ok"

-----------------------------------------------------------------------------
(* Python string operations *)

Ch(s, i) == SubSeq(s, i, i)

StartsWith(s, p) == Len(s) >= Len(p) /\ SubSeq(s, 1, Len(p)) = p

EndsWith(s, p) == Len(s) >= Len(p) /\ SubSeq(s, Len(s) - Len(p) + 1, Len(s)) = p

Contains(s, p) == \E i \in 1..(Len(s) - Len(p) + 1) : SubSeq(s, i, i + Len(p) - 1) = p

\* s[a:b] for 0 <= a <= b
Slice(s, a, b) == SubSeq(s, a + 1, IF b > Len(s) THEN Len(s) ELSE b)

\* s[:-n]
DropLast(s, n) == IF Len(s) > n THEN SubSeq(s, 1, Len(s) - n) ELSE ""

\* s[-n:]
TakeLast(s, n) == IF Len(s) > n THEN SubSeq(s, Len(s) - n + 1, Len(s)) ELSE s

LowerChars == <<"a", "b", "c", "d", "e", "f", "g", "h", "i", "j", "k", "l", "m",
                "n", "o", "p", "q", "r", "s", "t", "u", "v", "w", "x", "y", "z">>

UpperChars == <<"A", "B", "C", "D", "E", "F", "G", "H", "I", "J", "K", "L", "M",
                "N", "O", "P", "Q", "R", "S", "T", "U", "V", "W", "X", "Y", "Z">>

UpperChar(ch) ==
    IF \E i \in 1..26 : LowerChars[i] = ch
    THEN UpperChars[CHOOSE i \in 1..26 : LowerChars[i] = ch]
    ELSE ch

RECURSIVE UpperFrom(_, _)
UpperFrom(s, i) == IF i > Len(s) THEN "" ELSE UpperChar(Ch(s, i)) \o UpperFrom(s, i + 1)

\* str.upper()
Upper(s) == UpperFrom(s, 1)

LowerChar(ch) ==
    IF \E i \in 1..26 : UpperChars[i] = ch
    THEN LowerChars[CHOOSE i \in 1..26 : UpperChars[i] = ch]
    ELSE ch

RECURSIVE LowerFrom(_, _)
LowerFrom(s, i) == IF i > Len(s) THEN "" ELSE LowerChar(Ch(s, i)) \o LowerFrom(s, i + 1)

\* str.lower()
Lower(s) == LowerFrom(s, 1)

RECURSIVE UnderscoreAt(_, _)
UnderscoreAt(s, i) ==
    IF i > Len(s) THEN Len(s) + 1
    ELSE IF Ch(s, i) = "_" THEN i ELSE UnderscoreAt(s, i + 1)

\* s.split('_')[0]
SplitFirst(s) == SubSeq(s, 1, UnderscoreAt(s, 1) - 1)

\* s.split('_')[-1]
SplitLast(s) ==
    LET cuts == {i \in 1..Len(s) : Ch(s, i) = "_"}
    IN  IF cuts = {} THEN s
        ELSE SubSeq(s, (CHOOSE i \in cuts : \A j \in cuts : j <= i) + 1, Len(s))

Digits == <<"0", "1", "2", "3", "4", "5", "6", "7", "8", "9">>

IsDigits(s) == Len(s) > 0 /\ \A i \in 1..Len(s) : \E d \in 1..10 : Digits[d] = Ch(s, i)

RECURSIVE IntOfFrom(_, _, _)
IntOfFrom(s, i, acc) ==
    IF i > Len(s) THEN acc
    ELSE IntOfFrom(s, i + 1, 10 * acc + (CHOOSE d \in 1..10 : Digits[d] = Ch(s, i)) - 1)

\* int(s) for a string of decimal digits
IntOf(s) == IntOfFrom(s, 1, 0)

\* int(v) of a coordinate given in half pixels: truncation toward zero
PyInt(h) == IF h >= 0 THEN h \div 2 ELSE -((-h) \div 2)

-----------------------------------------------------------------------------
(* The geometry table (pysiaf.Siaf): a representative extract.             *)
(* XSciRef / YSciRef are in half pixels; slit and compound apertures have  *)
(* no science-frame reference pixel or scale (NoGeom).                     *)

NoGeom == -1

AP(type, xref, yref, xscale, yscale, angle) ==
    [AperType |-> type, XSciRef |-> xref, YSciRef |-> yref,
     XSciScale |-> xscale, YSciScale |-> yscale, V3IdlYAngle |-> angle]

SLITAP(angle) == AP("SLIT", NoGeom, NoGeom, NoGeom, NoGeom, angle)

COMPOUNDAP == AP("COMPOUND", NoGeom, NoGeom, NoGeom, NoGeom, NoGeom)

SiafNIRCam ==
    ( "NRCA1_FULL" :> AP("FULLSCA", 2049, 2049, 3118, 3134, -560)
   @@ "NRCA2_FULL" :> AP("FULLSCA", 2049, 2049, 3090, 3118, -270)
   @@ "NRCA3_FULL" :> AP("FULLSCA", 2049, 2049, 3102, 3140, 250)
   @@ "NRCA4_FULL" :> AP("FULLSCA", 2049, 2049, 3080, 3116, 30)
   @@ "NRCA5_FULL" :> AP("FULLSCA", 2049, 2049, 6270, 6314, -190)
   @@ "NRCB1_FULL" :> AP("FULLSCA", 2049, 2049, 3104, 3136, -20)
   @@ "NRCB2_FULL" :> AP("FULLSCA", 2049, 2049, 3076, 3126, -350)
   @@ "NRCB3_FULL" :> AP("FULLSCA", 2049, 2049, 3092, 3134, -110)
   @@ "NRCB4_FULL" :> AP("FULLSCA", 2049, 2049, 3066, 3118, 310)
   @@ "NRCB5_FULL" :> AP("FULLSCA", 2049, 2049, 6290, 6334, -100)
   @@ "NRCA1_SUB160" :> AP("SUBARRAY", 161, 161, 3124, 3140, -560)
   @@ "NRCA5_FULL_MASKLWB" :> AP("FULLSCA", 3033, 3361, 6262, 6306, -190)
   @@ "NRCA4_FULL_MASKSWB" :> AP("FULLSCA", 2075, 2965, 3072, 3108, 30)
   @@ "NRCA2_FULL_MASK210R" :> AP("FULLSCA", 1425, 2433, 3084, 3112, -270)
   @@ "NRCA5_FULL_MASK335R" :> AP("FULLSCA", 1283, 3351, 6256, 6300, -190)
   @@ "NRCA5_FULL_MASK430R" :> AP("FULLSCA", 1923, 3353, 6258, 6302, -190)
   @@ "NRCA5_FULL_WEDGE_BAR" :> AP("FULLSCA", 3049, 3363, 6264, 6304, -190)
   @@ "NRCA5_FULL_WEDGE_RND" :> AP("FULLSCA", 1289, 3357, 6254, 6302, -190)
   @@ "NRCA4_FULL_WEDGE_BAR" :> AP("FULLSCA", 2081, 2971, 3074, 3106, 30)
   @@ "NRCA2_FULL_WEDGE_RND" :> AP("FULLSCA", 1431, 2439, 3086, 3110, -270)
   @@ "NRCA4_MASKSWB_NARROW" :> AP("SUBARRAY", 641, 641, 3070, 3106, 30)
   @@ "NRCA5_MASKLWB_F444W" :> AP("SUBARRAY", 321, 321, 6260, 6304, -190)
   @@ "NRCA4_FSTAMASKSWB" :> AP("SUBARRAY", 129, 129, 3074, 3110, 30)
   @@ "NRCB5_MASKLWB" :> AP("SUBARRAY", 321, 321, 6284, 6328, -100)
   @@ "NRCB3_MASKSWB" :> AP("SUBARRAY", 641, 641, 3086, 3128, -110)
   @@ "NRCB1_MASK210R" :> AP("SUBARRAY", 641, 641, 3098, 3130, -20)
   @@ "NRCB5_MASK335R" :> AP("SUBARRAY", 321, 321, 6282, 6330, -100)
   @@ "NRCB5_MASK430R" :> AP("SUBARRAY", 321, 321, 6286, 6326, -100) )

SiafMIRI ==
    ( "MIRIM_FULL" :> AP("FULLSCA", 1387, 1025, 11058, 11094, 4835)
   @@ "MIRIM_CORON1065" :> AP("SUBARRAY", 241, 225, 11040, 11072, 4835)
   @@ "MIRIM_CORON1140" :> AP("SUBARRAY", 239, 229, 11042, 11074, 4835)
   @@ "MIRIM_CORON1550" :> AP("SUBARRAY", 239, 227, 11044, 11076, 4835)
   @@ "MIRIM_CORONLYOT" :> AP("SUBARRAY", 287, 299, 11046, 11080, 4835)
   @@ "MIRIM_SLIT" :> SLITAP(4835)
   @@ "MIRIFU_CHANNEL1A" :> COMPOUNDAP @@ "MIRIFU_CHANNEL1B" :> COMPOUNDAP
   @@ "MIRIFU_CHANNEL1C" :> COMPOUNDAP @@ "MIRIFU_CHANNEL2A" :> COMPOUNDAP
   @@ "MIRIFU_CHANNEL2B" :> COMPOUNDAP @@ "MIRIFU_CHANNEL2C" :> COMPOUNDAP
   @@ "MIRIFU_CHANNEL3A" :> COMPOUNDAP @@ "MIRIFU_CHANNEL3B" :> COMPOUNDAP
   @@ "MIRIFU_CHANNEL3C" :> COMPOUNDAP @@ "MIRIFU_CHANNEL4A" :> COMPOUNDAP
   @@ "MIRIFU_CHANNEL4B" :> COMPOUNDAP @@ "MIRIFU_CHANNEL4C" :> COMPOUNDAP )

SiafNIRSpec ==
    ( "NRS1_FULL" :> AP("FULLSCA", 2049, 2049, 10320, 10536, 138500)
   @@ "NRS2_FULL" :> AP("FULLSCA", 2049, 2049, 10410, 10474, 138600)
   @@ "NRS_S200A1_SLIT" :> SLITAP(138760)
   @@ "NRS_S200B1_SLIT" :> SLITAP(138740)
   @@ "NRS_FULL_IFU" :> SLITAP(138750) )

SiafNIRISS ==
    ( "NIS_CEN" :> AP("FULLSCA", 2049, 2049, 6534, 6598, -570)
   @@ "NIS_SUB128" :> AP("SUBARRAY", 129, 129, 6540, 6600, -570) )

SiafFGS ==
    ( "FGS1_FULL" :> AP("FULLSCA", 2049, 2049, 6824, 6974, -1250)
   @@ "FGS2_FULL" :> AP("FULLSCA", 2049, 2049, 6830, 6990, 240)
   @@ "FGS1_SUB128CNTR" :> AP("SUBARRAY", 129, 129, 6826, 6976, -1250) )

\* get_siaf_with_caching(instrname)
Siaf(inst) ==
    CASE inst = "NIRCam" -> SiafNIRCam
      [] inst = "MIRI" -> SiafMIRI
      [] inst = "NIRSpec" -> SiafNIRSpec
      [] inst = "NIRISS" -> SiafNIRISS
      [] inst = "FGS" -> SiafFGS

InSiaf(inst, name) == name \in DOMAIN Siaf(inst)

\* aperture.tel_to_sci(V2Ref, V3Ref) of a slit aperture through a full-frame
\* aperture, in half pixels
TelToSci(full, slit) ==
    CASE full = "NRS1_FULL" /\ slit = "NRS_S200A1_SLIT" -> <<2167, 2213>>
      [] full = "NRS1_FULL" /\ slit = "NRS_S200B1_SLIT" -> <<4301, 2255>>
      [] full = "NRS1_FULL" /\ slit = "NRS_FULL_IFU" -> <<1771, 2089>>
      [] full = "NRS2_FULL" /\ slit = "NRS_S200A1_SLIT" -> <<-2237, 2199>>
      [] full = "NRS2_FULL" /\ slit = "NRS_S200B1_SLIT" -> <<263, 2241>>
      [] full = "NRS2_FULL" /\ slit = "NRS_FULL_IFU" -> <<-2633, 2075>>
      [] full = "MIRIM_FULL" /\ slit = "MIRIM_SLIT" -> <<653, 601>>
      [] OTHER -> <<2049, 2049>>

\* average angle of the alpha-axis sides of a MIRIFU aperture's corners
CornerAngle(apername) ==
    CASE StartsWith(apername, "MIRIFU_CHANNEL1") -> 8400
      [] StartsWith(apername, "MIRIFU_CHANNEL2") -> 8200
      [] StartsWith(apername, "MIRIFU_CHANNEL3") -> 7600
      [] OTHER -> 8900

-----------------------------------------------------------------------------
(* Catalogs set up by the constructors *)

filter_list(inst) ==
    CASE inst = "NIRCam" -> <<"F070W", "F200W", "F212N", "F335M", "F444W", "WLP4">>
      [] inst = "MIRI" -> <<"F560W", "F1000W", "F1065C", "F1140C", "F2300C">>
      [] inst = "NIRSpec" -> <<"F110W", "F140X", "CLEAR", "F070LP">>
      [] inst = "NIRISS" -> <<"F090W", "F277W", "F480M", "CLEAR">>
      [] inst = "FGS" -> <<"FGS">>

image_mask_list(inst) ==
    CASE inst = "NIRCam" -> {"MASKLWB", "MASKSWB", "MASK210R", "MASK335R", "MASK430R"}
      [] inst = "MIRI" -> {"FQPM1065", "FQPM1140", "FQPM1550", "LYOT2300", "LRS slit"}
      [] inst = "NIRSpec" -> {"S200A1", "S200A2", "S400A1", "S1600A1", "S200B1", "MSA all open",
                              "Single MSA open shutter", "Three adjacent MSA open shutters", "IFU"}
      [] inst = "NIRISS" -> {"CORON058", "CORON075", "CORON150", "CORON200"}
      [] inst = "FGS" -> {}

pupil_mask_list(inst) ==
    CASE inst = "NIRCam" -> {"CIRCLYOT", "WEDGELYOT", "MASKRND", "MASKSWB", "MASKLWB",
                             "WEAK LENS +4", "WEAK LENS +8", "WEAK LENS -8",
                             "WEAK LENS +12 (=4+8)", "WEAK LENS -4 (=4-8)",
                             "WLP4", "WLM4", "WLP8", "WLM8", "WLP12",
                             "DHS_01", "DHS_02", "DHS_03", "DHS_04", "DHS_05",
                             "DHS_06", "DHS_07", "DHS_08", "DHS_09", "DHS_10"}
      [] inst = "MIRI" -> {"MASKFQPM", "MASKLYOT", "P750L"}
      [] inst = "NIRSpec" -> {"NIRSpec grating"}
      [] inst = "NIRISS" -> {"CLEARP", "MASK_NRM", "GR700XD"}
      [] inst = "FGS" -> {}

\* _image_mask_apertures (MIRI and NIRCam define it)
HasImageMaskApertures(inst) == inst \in {"MIRI", "NIRCam"}

image_mask_apertures(inst) ==
    CASE inst = "MIRI" -> ( "FQPM1065" :> "MIRIM_CORON1065" @@ "FQPM1140" :> "MIRIM_CORON1140"
                         @@ "FQPM1550" :> "MIRIM_CORON1550" @@ "LYOT2300" :> "MIRIM_CORONLYOT" )
      [] inst = "NIRCam" -> ( "MASKLWB" :> "NRCA5_MASKLWB" @@ "MASKSWB" :> "NRCA4_MASKSWB"
                           @@ "MASK210R" :> "NRCA2_MASK210R" @@ "MASK335R" :> "NRCA5_MASK335R"
                           @@ "MASK430R" :> "NRCA5_MASK430R" )
      [] OTHER -> <<>>

\* _detectors: detector name -> full-frame aperture
detectors(inst) ==
    CASE inst = "NIRCam" -> ( "NRCA1" :> "NRCA1_FULL" @@ "NRCA2" :> "NRCA2_FULL" @@ "NRCA3" :> "NRCA3_FULL"
                           @@ "NRCA4" :> "NRCA4_FULL" @@ "NRCA5" :> "NRCA5_FULL" @@ "NRCB1" :> "NRCB1_FULL"
                           @@ "NRCB2" :> "NRCB2_FULL" @@ "NRCB3" :> "NRCB3_FULL" @@ "NRCB4" :> "NRCB4_FULL"
                           @@ "NRCB5" :> "NRCB5_FULL" )
      [] inst = "MIRI" -> ( "MIRIM" :> "MIRIM_FULL" @@ "MIRIFUSHORT" :> "MIRIFU_CHANNEL1A"
                         @@ "MIRIFULONG" :> "MIRIFU_CHANNEL3A" )
      [] inst = "NIRSpec" -> ( "NRS1" :> "NRS1_FULL" @@ "NRS2" :> "NRS2_FULL" )
      [] inst = "NIRISS" -> ( "NIS" :> "NIS_CEN" )
      [] inst = "FGS" -> ( "FGS1" :> "FGS1_FULL" @@ "FGS2" :> "FGS2_FULL" )

detector_list(inst) == DOMAIN detectors(inst)

\* _modes_list of the instruments with an IFU
modes_list(inst) ==
    CASE inst = "MIRI" -> ( "imaging" :> "MIRIM_FULL" @@ "IFU" :> "MIRIFU_CHANNEL1A" )
      [] inst = "NIRSpec" -> ( "imaging" :> "NRS1_FULL" @@ "IFU" :> "NRS_FULL_IFU" )
      [] OTHER -> <<>>

\* MIRI._IFU_bands_cubepars: band -> pipeline spaxel size
IFU_bands_cubepars ==
    ( "1A" :> 13000 @@ "1B" :> 13000 @@ "1C" :> 13000 @@ "2A" :> 17000 @@ "2B" :> 17000 @@ "2C" :> 17000
   @@ "3A" :> 20000 @@ "3B" :> 20000 @@ "3C" :> 20000 @@ "4A" :> 35000 @@ "4B" :> 35000 @@ "4C" :> 35000 )

disperser_list == {"PRISM", "G140M", "G140H", "G235M", "G235H", "G395M", "G395H"}

-----------------------------------------------------------------------------
(* Results of a setter: the configuration it left and the error it raised *)

Res(c, e) == [c |-> c, err |-> e]

Ok(c) == Res(c, NoErr)

SVal(v) == [v |-> v, err |-> NoErr]

SErr(e) == [v |-> 0, err |-> e]

\* the statements after a call run on the configuration it left, unless it raised
Then(r, F(_)) == IF r.err # NoErr THEN r ELSE F(r.c)

\* a local name for a value that the following statements use
With(v, F(_)) == F(v)

-----------------------------------------------------------------------------
(* Attribute assignment and method call on self: Python resolves the name on
   the class of the instrument, so a setter of a base class that assigns
   self.aperturename runs the override of the subclass.  SetAttr is that
   resolution; the operators below are its call sites. *)

RECURSIVE SetAttr(_, _, _)

RECURSIVE Dispatch(_, _, _)

\* self.aperturename = value
AperturenameSetter(c, value) == SetAttr(c, "aperturename", value)

\* self._update_aperturename()
UpdateAperturename(c) == SetAttr(c, "_update_aperturename", None)

\* self.detector = value
DetectorSetter(c, value) == SetAttr(c, "detector", value)

\* self.image_mask = name
ImageMaskSetter(c, name) == SetAttr(c, "image_mask", name)

\* self.pupil_mask = name
PupilMaskSetter(c, name) == SetAttr(c, "pupil_mask", name)

\* self.filter = value
FilterSetter(c, value) == SetAttr(c, "filter", value)

\* self.band = value
BandSetter(c, value) == SetAttr(c, "band", value)

\* self.set_position_from_aperture_name(aperture_name)
SetPositionFromApertureName(c, aperture_name) ==
    SetAttr(c, "set_position_from_aperture_name", aperture_name)

-----------------------------------------------------------------------------
(* SpaceTelescopeInstrument.detector_position (setter); hx, hy in half pixels *)

DetectorPositionSetterNoUpperBound(c, hx, hy) ==
    LET x == PyInt(hx)
        y == PyInt(hy)
    IN  IF x < 0 \/ y < 0 THEN Res(c, "OutOfBounds")
        ELSE Ok([c EXCEPT !.pos = <<x, y>>])

DetectorPositionSetterSwappedAxes(c, hx, hy) ==
    LET x == PyInt(hx)
        y == PyInt(hy)
        det_npix_y == c.npix[2]
        det_npix_x == c.npix[1]
    IN  IF x < 0 \/ y < 0 THEN Res(c, "OutOfBounds")
        ELSE IF x > det_npix_x - 1 \/ y > det_npix_y - 1 THEN Res(c, "OutOfBounds")
        ELSE Ok([c EXCEPT !.pos = <<x, y>>])

DetectorPositionSetter(c, hx, hy) ==
    LET x == PyInt(hx)
        y == PyInt(hy)
        det_npix_y == c.npix[1]
        det_npix_x == c.npix[2]
    IN  IF x < 0 \/ y < 0 THEN Res(c, "OutOfBounds")
        ELSE IF x > det_npix_x - 1 \/ y > det_npix_y - 1 THEN Res(c, "OutOfBounds")
        ELSE Ok([c EXCEPT !.pos = <<x, y>>])

-----------------------------------------------------------------------------
(* _get_pixelscale_from_apername *)

JWGetPixelscaleFromApername(c, apername) ==
    IF apername \notin DOMAIN c.siaf THEN SErr("KeyError")
    ELSE IF c.siaf[apername].XSciScale = NoGeom THEN SErr("TypeError")
    ELSE SVal((c.siaf[apername].XSciScale + c.siaf[apername].YSciScale) \div 2)

MIRIGetPixelscaleFromApername(c, apername) ==
    IF Contains(apername, "MIRIFU")
    THEN IF StartsWith(apername, "MIRIFU_CHANNEL")
         THEN LET band == TakeLast(apername, 2)
              IN  IF band \in DOMAIN IFU_bands_cubepars
                  THEN SVal(IFU_bands_cubepars[band]) ELSE SErr("KeyError")
         ELSE SErr("RuntimeError")
    ELSE JWGetPixelscaleFromApername(c, apername)

NIRSpecGetPixelscaleFromApername(c, apername) ==
    JWGetPixelscaleFromApername(c, IF Contains(apername, "IFU") THEN "NRS1_FULL" ELSE apername)

GetPixelscaleFromApername(c, apername) ==
    CASE c.inst = "MIRI" -> MIRIGetPixelscaleFromApername(c, apername)
      [] c.inst = "NIRSpec" -> NIRSpecGetPixelscaleFromApername(c, apername)
      [] OTHER -> JWGetPixelscaleFromApername(c, apername)

-----------------------------------------------------------------------------
(* JWInstrument.aperturename (setter) *)

JWAperturenameSlitAlwaysDerived(c, value) ==
    LET c1 == [c EXCEPT !.aper = value, !.geom = value]
    IN  With(GetPixelscaleFromApername(c, c.detector \o "_FULL"), LAMBDA s :
            IF s.err # NoErr THEN Res(c1, s.err)
            ELSE Ok([c1 EXCEPT !.pixelscale = s.v]))

JWAperturenameSlit(c, value) ==
    LET detector_apername == c.detector \o "_FULL"
        c1 == [c EXCEPT !.aper = value, !.geom = value]
    IN  With(GetPixelscaleFromApername(c, detector_apername), LAMBDA s :
            IF c.aper # None /\ s.err # NoErr THEN Res(c, s.err)
            ELSE IF c.aper # None /\ c.pixelscale # s.v THEN Ok(c1)
            ELSE IF s.err # NoErr THEN Res(c1, s.err)
            ELSE Ok([c1 EXCEPT !.pixelscale = s.v]))

JWAperturenameCompound(c, value) ==
    LET c1 == [c EXCEPT !.aper = value, !.geom = value]
    IN  With(GetPixelscaleFromApername(c1, value), LAMBDA s :
            IF s.err # NoErr THEN Res(c1, s.err)
            ELSE Ok([c1 EXCEPT !.pixelscale = s.v]))

\* the tail of the plain branch: the geometry and the pixel scale of the new aperture
JWAperturenamePlainScale(c2, value, has_custom_pixelscale) ==
    LET c3 == [c2 EXCEPT !.geom = value]
    IN  IF has_custom_pixelscale THEN Ok(c3)
        ELSE With(GetPixelscaleFromApername(c3, value), LAMBDA s2 :
                 IF s2.err # NoErr THEN Res(c3, s2.err)
                 ELSE Ok([c3 EXCEPT !.pixelscale = s2.v]))

JWAperturenamePlain(c, value) ==
    LET ap == c.siaf[value]
        oldHasScale == c.aper # None /\ c.siaf[c.aper].AperType # "SLIT"
    IN  IF ~Contains(value, c.detector) THEN Res(c, "DetectorMismatch")
        ELSE With(GetPixelscaleFromApername(c, c.aper), LAMBDA s :
                 IF oldHasScale /\ s.err # NoErr THEN Res(c, s.err)
                 ELSE Then(DetectorPositionSetter([c EXCEPT !.aper = value], ap.XSciRef, ap.YSciRef),
                           LAMBDA c2 : JWAperturenamePlainScale(c2, value,
                               oldHasScale /\ c.pixelscale # s.v /\ ap.AperType # "SLIT")))

\* variant: selecting the current aperture again re-derives the pixel scale
JWAperturenameSetterRederives(c, value) ==
    IF value \notin DOMAIN c.siaf THEN Res(c, "InvalidAperture")
    ELSE IF c.aper = value
    THEN With(GetPixelscaleFromApername(c, c.detector \o "_FULL"), LAMBDA s :
             IF s.err # NoErr THEN Ok(c) ELSE Ok([c EXCEPT !.pixelscale = s.v]))
    ELSE IF c.siaf[value].AperType = "SLIT" THEN JWAperturenameSlit(c, value)
    ELSE IF c.siaf[value].AperType = "COMPOUND" /\ c.inst = "MIRI" THEN JWAperturenameCompound(c, value)
    ELSE JWAperturenamePlain(c, value)

JWAperturenameSetter(c, value) ==
    IF value \notin DOMAIN c.siaf THEN Res(c, "InvalidAperture")
    ELSE IF c.aper = value THEN Ok(c)
    ELSE IF c.siaf[value].AperType = "SLIT" THEN JWAperturenameSlit(c, value)
    ELSE IF c.siaf[value].AperType = "COMPOUND" /\ c.inst = "MIRI" THEN JWAperturenameCompound(c, value)
    ELSE JWAperturenamePlain(c, value)

-----------------------------------------------------------------------------
(* MIRI: aperturename and band setters *)

\* MIRI.band (property)
MIRIBand(c) == IF c.mode = "IFU" THEN c.band ELSE None

MIRIGetApertureRotation(c, apername) ==
    IF StartsWith(apername, "MIRIM") THEN SVal(c.siaf["MIRIM_FULL"].V3IdlYAngle)
    ELSE IF StartsWith(apername, "MIRIFU") THEN SVal(CornerAngle(apername))
    ELSE SErr("ValueError")

\* the IFU tail of the setter: the band and the detector follow the aperture
\* variant: the band is assigned whether or not it already is the aperture's
MIRIAperturenameIFUAlwaysSetsBand(c2, value) ==
    Then(BandSetter(c2, TakeLast(value, 2)),
         LAMBDA c3 :
            IF MIRIBand(c3) = None THEN Res(c3, "TypeError")
            ELSE Ok([c3 EXCEPT !.detector =
                        IF Ch(MIRIBand(c3), 1) \in {"3", "4"} THEN "MIRIFULONG" ELSE "MIRIFUSHORT"]))

MIRIAperturenameIFU(c2, value) ==
    Then(IF MIRIBand(c2) # TakeLast(value, 2) THEN BandSetter(c2, TakeLast(value, 2)) ELSE Ok(c2),
         LAMBDA c3 :
            IF MIRIBand(c3) = None THEN Res(c3, "TypeError")
            ELSE Ok([c3 EXCEPT !.detector =
                        IF Ch(MIRIBand(c3), 1) \in {"3", "4"} THEN "MIRIFULONG" ELSE "MIRIFUSHORT"]))

MIRIAperturenameSetter(c, value) ==
    Then(JWAperturenameSetter(c, value), LAMBDA c1 :
        With(MIRIGetApertureRotation(c1, c1.aper), LAMBDA rot :
            IF rot.err # NoErr THEN Res(c1, rot.err)
            ELSE IF ~StartsWith(value, "MIRIFU")
                 THEN Ok([c1 EXCEPT !.rotation = rot.v, !.mode = "imaging"])
                 ELSE MIRIAperturenameIFU([c1 EXCEPT !.rotation = rot.v, !.mode = "IFU"], value)))

MIRIBandSetterAnyMode(c, value) ==
    IF value \in DOMAIN IFU_bands_cubepars
    THEN AperturenameSetter([c EXCEPT !.band = value], "MIRIFU_CHANNEL" \o value)
    ELSE Res(c, "InvalidBand")

MIRIBandSetter(c, value) ==
    IF c.mode # "IFU"
    THEN IF value # None THEN Res(c, "BandNotIFU") ELSE Ok(c)
    ELSE IF value \in DOMAIN IFU_bands_cubepars
         THEN AperturenameSetter([c EXCEPT !.band = value], "MIRIFU_CHANNEL" \o value)
         ELSE Res(c, "InvalidBand")

-----------------------------------------------------------------------------
(* NIRCam: channel, module, aperturename setter *)

\* NIRCam.channel (property)
Channel(c) == IF EndsWith(c.detector, "5") THEN "long" ELSE "short"

\* NIRCam.module (property)
Module(c) == Ch(c.detector, 4)

\* NIRCam._pixelscale_short, _pixelscale_long
pixelscale_short == (SiafNIRCam["NRCA1_FULL"].XSciScale + SiafNIRCam["NRCA1_FULL"].YSciScale) \div 2

pixelscale_long == (SiafNIRCam["NRCA5_FULL"].XSciScale + SiafNIRCam["NRCA5_FULL"].YSciScale) \div 2

SwitchChannel(c, channel) ==
    IF Channel(c) = channel THEN Ok(c)
    ELSE IF channel = "long"
    THEN LET c1 == [c EXCEPT !.detector = Slice(c.detector, 0, 4) \o "5"]
         IN  Ok(IF c1.pixelscale = c.pixelscale_short
                THEN [c1 EXCEPT !.pixelscale = c.pixelscale_long] ELSE c1)
    ELSE IF channel = "short"
    THEN LET c1 == IF TakeLast(c.detector, 1) = "5"
                   THEN [c EXCEPT !.detector = Slice(c.detector, 0, 4) \o "1"] ELSE c
         IN  Ok(IF c1.pixelscale = c.pixelscale_long
                THEN [c1 EXCEPT !.pixelscale = c.pixelscale_short] ELSE c1)
    ELSE Res(c, "InvalidChannel")

\* the names tried when the geometry table lacks the requested one
NIRCamAlternativeName(value) ==
    CASE value = "NRCA5_FULL_WEDGE_BAR" -> "NRCA5_FULL_MASKLWB"
      [] value = "NRCA5_FULL_WEDGE_RND" -> "NRCA5_FULL_MASK335R"
      [] value = "NRCA4_FULL_WEDGE_BAR" -> "NRCA4_FULL_MASKSWB"
      [] value = "NRCA2_FULL_WEDGE_RND" -> "NRCA2_FULL_MASK210R"
      [] OTHER -> None

\* the tail of the setter: the geometry and the pixel scale of the new aperture
NIRCamAperturenameScale(c3, value, has_custom_pixelscale) ==
    LET c4 == [c3 EXCEPT !.geom = value]
    IN  IF has_custom_pixelscale THEN Ok(c4)
        ELSE With(GetPixelscaleFromApername(c4, value), LAMBDA s2 :
                 IF s2.err # NoErr THEN Res(c4, s2.err)
                 ELSE Ok([c4 EXCEPT !.pixelscale = s2.v]))

\* the detector and the channel follow the aperture name
NIRCamAperturenameDetector(c2, new_det) ==
    IF new_det # c2.detector
    THEN With(SwitchChannel(c2, IF TakeLast(new_det, 1) = "5" THEN "long" ELSE "short"),
              LAMBDA rs : Res([rs.c EXCEPT !.detector = new_det], rs.err))
    ELSE Ok(c2)

NIRCamAperturenameUpdate(c, value, apBound) ==
    With(GetPixelscaleFromApername(c, c.aper), LAMBDA s :
        IF c.aper # None /\ s.err # NoErr THEN Res(c, s.err)
        ELSE IF ~apBound THEN Res([c EXCEPT !.aper = value], "UnboundLocalError")
        ELSE Then(DetectorPositionSetter([c EXCEPT !.aper = value],
                                         c.siaf[value].XSciRef, c.siaf[value].YSciRef),
                  LAMBDA c2 :
                     Then(NIRCamAperturenameDetector(c2, Slice(value, 0, 5)),
                          LAMBDA c3 : NIRCamAperturenameScale(c3, value,
                                          c.aper # None /\ c.pixelscale # s.v))))

NIRCamAperturenameSetter(c, value) ==
    IF value \in DOMAIN c.siaf
    THEN IF c.aper # value THEN NIRCamAperturenameUpdate(c, value, TRUE) ELSE Ok(c)
    ELSE LET newval == NIRCamAlternativeName(value)
         IN  IF newval = None \/ c.aper = newval THEN Ok(c)
             ELSE NIRCamAperturenameUpdate(c, newval, FALSE)

-----------------------------------------------------------------------------
(* Setters of the base classes that NIRSpec's aperturename setter uses *)

\* poppy.Instrument.filter (setter), the superclass setter of every family
PoppyFilterSetter(c, value) ==
    With(Upper(value), LAMBDA v :
        IF \E i \in DOMAIN filter_list(c.inst) : filter_list(c.inst)[i] = v
        THEN Ok([c EXCEPT !.filter = v]) ELSE Res(c, "InvalidFilter"))

\* the name an image_mask or pupil_mask setter stores: '' is None, and a name
\* that is not in the list is upper-cased
MaskName(name, list) ==
    IF name = "" THEN None
    ELSE IF name # None /\ name \notin list THEN Upper(name)
    ELSE name

\* image_mask setter up to the assignment of _image_mask
ImageMaskStore(c, name0) ==
    With(MaskName(name0, image_mask_list(c.inst)), LAMBDA name :
        IF name # None /\ name \notin image_mask_list(c.inst) THEN Res(c, "InvalidImageMask")
        ELSE Ok([c EXCEPT !.image_mask = name]))

\* NIRSpec.disperser (setter)
DisperserSetter(c, value) ==
    IF value = None \/ value \in disperser_list
    THEN Ok([c EXCEPT !.disperser = value]) ELSE Res(c, "RuntimeError")

\* the IFU tail of the setter: default disperser and filter, no image mask
NIRSpecAperturenameIFU(c3) ==
    Then(IF c3.disperser = None
         THEN Then(DisperserSetter(c3, "PRISM"), LAMBDA c4 : PoppyFilterSetter(c4, "CLEAR"))
         ELSE Ok(c3),
         LAMBDA c5 : IF c5.image_mask \notin {"IFU", None} THEN ImageMaskStore(c5, None) ELSE Ok(c5))

NIRSpecAperturenameNonDetector(c, value) ==
    IF c.aper = value THEN Ok(c)
    ELSE With(GetPixelscaleFromApername(c, c.detector \o "_FULL"), LAMBDA s :
        LET has_custom_pixelscale == c.aper # None /\ c.pixelscale # s.v
            c1 == [c EXCEPT !.aper = value, !.geom = value]
            c2 == IF has_custom_pixelscale THEN c1 ELSE [c1 EXCEPT !.pixelscale = s.v]
        IN  IF c.aper # None /\ s.err # NoErr THEN Res(c, s.err)
            ELSE IF ~has_custom_pixelscale /\ s.err # NoErr THEN Res(c1, s.err)
            ELSE IF ~Contains(c2.aper, "IFU") THEN Ok([c2 EXCEPT !.mode = "imaging"])
            ELSE NIRSpecAperturenameIFU([c2 EXCEPT !.mode = "IFU"]))

NIRSpecAperturenameSetter(c, value) ==
    IF value \notin DOMAIN c.siaf THEN Res(c, "InvalidAperture")
    ELSE Then(IF Slice(value, 0, 4) \in {"NRS1", "NRS2"}
              THEN JWAperturenameSetter(c, value)
              ELSE NIRSpecAperturenameNonDetector(c, value),
              LAMBDA c1 : Ok([c1 EXCEPT !.rotation = c.siaf[c1.aper].V3IdlYAngle]))

-----------------------------------------------------------------------------
(* _update_aperturename: the aperture / detector synchroniser *)

MIRIUpdateAperturename(c) ==
    LET apname == IF c.image_mask # None
                  THEN IF Contains(c.image_mask, "LRS") THEN "MIRIM_FULL"
                       ELSE image_mask_apertures(c.inst)[c.image_mask]
                  ELSE IF c.mode = "imaging" THEN "MIRIM_FULL"
                  ELSE c.aper
    IN  AperturenameSetter(c, apname)

aps_modA ==
    ( "MASKLWB" :> "NRCA5_FULL_MASKLWB" @@ "MASKSWB" :> "NRCA4_FULL_MASKSWB"
   @@ "MASK210R" :> "NRCA2_FULL_MASK210R" @@ "MASK335R" :> "NRCA5_FULL_MASK335R"
   @@ "MASK430R" :> "NRCA5_FULL_MASK430R" )

aps_modB ==
    ( "MASKLWB" :> "NRCB5_MASKLWB" @@ "MASKSWB" :> "NRCB3_MASKSWB"
   @@ "MASK210R" :> "NRCB1_MASK210R" @@ "MASK335R" :> "NRCB5_MASK335R"
   @@ "MASK430R" :> "NRCB5_MASK430R" )

\* variant: the pupil-mask rule is tried before the image-mask rule
NIRCamUpdateAperturenamePupilFirst(c) ==
    LET pm == c.pupil_mask
        apname ==
            IF pm # None /\ (Contains(pm, "LYOT") \/ Contains(pm, "MASK"))
            THEN IF Contains(Channel(c), "long")
                 THEN IF Contains(pm, "WEDGE") \/ Contains(pm, "LWB")
                      THEN IF Module(c) = "A" THEN "NRCA5_FULL_WEDGE_BAR" ELSE "NRCB5_MASKLWB"
                      ELSE IF Module(c) = "A" THEN "NRCA5_FULL_WEDGE_RND" ELSE "NRCB5_MASK335R"
                 ELSE IF Contains(pm, "WEDGE") \/ Contains(pm, "SWB")
                      THEN IF Module(c) = "A" THEN "NRCA4_FULL_WEDGE_BAR" ELSE "NRCB3_MASKSWB"
                      ELSE IF Module(c) = "A" THEN "NRCA2_FULL_WEDGE_RND" ELSE "NRCB1_MASK210R"
            ELSE IF c.image_mask # None
            THEN IF Module(c) = "A" THEN aps_modA[c.image_mask] ELSE aps_modB[c.image_mask]
            ELSE detectors(c.inst)[c.detector]
    IN  AperturenameSetter(c, apname)

NIRCamUpdateAperturename(c) ==
    LET pm == c.pupil_mask
        apname ==
            IF c.image_mask # None
            THEN IF Module(c) = "A" THEN aps_modA[c.image_mask] ELSE aps_modB[c.image_mask]
            ELSE IF pm # None /\ (Contains(pm, "LYOT") \/ Contains(pm, "MASK"))
            THEN IF Contains(Channel(c), "long")
                 THEN IF Contains(pm, "WEDGE") \/ Contains(pm, "LWB")
                      THEN IF Module(c) = "A" THEN "NRCA5_FULL_WEDGE_BAR" ELSE "NRCB5_MASKLWB"
                      ELSE IF Module(c) = "A" THEN "NRCA5_FULL_WEDGE_RND" ELSE "NRCB5_MASK335R"
                 ELSE IF Contains(pm, "WEDGE") \/ Contains(pm, "SWB")
                      THEN IF Module(c) = "A" THEN "NRCA4_FULL_WEDGE_BAR" ELSE "NRCB3_MASKSWB"
                      ELSE IF Module(c) = "A" THEN "NRCA2_FULL_WEDGE_RND" ELSE "NRCB1_MASK210R"
            ELSE detectors(c.inst)[c.detector]
    IN  AperturenameSetter(c, apname)

\* SpaceTelescopeInstrument._update_aperturename
BaseUpdateAperturename(c) == AperturenameSetter(c, detectors(c.inst)[c.detector])

-----------------------------------------------------------------------------
(* detector setters *)

\* the name the setter validates and stores, before upper()
NIRCamDetectorSynonym(value) ==
    IF EndsWith(Upper(value), "LONG") THEN DropLast(value, 4) \o "5" ELSE value

FGSDetectorSynonym(value) ==
    IF StartsWith(Upper(value), "GUIDER") THEN "FGS" \o TakeLast(value, 1) ELSE value

DetectorSynonym(inst, value) ==
    CASE inst = "NIRCam" -> NIRCamDetectorSynonym(value)
      [] inst = "FGS" -> FGSDetectorSynonym(value)
      [] OTHER -> value

\* the validation of the three detector setters
DetectorAcceptedCaseSensitive(inst, value) == DetectorSynonym(inst, value) \in detector_list(inst)

DetectorAccepted(inst, value) == Upper(DetectorSynonym(inst, value)) \in detector_list(inst)

BaseDetectorSetterKeepCase(c, value) ==
    IF ~DetectorAccepted(c.inst, value) THEN Res(c, "InvalidDetector")
    ELSE UpdateAperturename([c EXCEPT !.detector = value])

BaseDetectorSetter(c, value) ==
    IF ~DetectorAccepted(c.inst, value) THEN Res(c, "InvalidDetector")
    ELSE UpdateAperturename([c EXCEPT !.detector = Upper(value)])

NIRCamDetectorSetter(c, value0) ==
    IF ~DetectorAccepted(c.inst, value0) THEN Res(c, "InvalidDetector")
    ELSE With(NIRCamDetectorSynonym(value0), LAMBDA value :
             Then(SwitchChannel(c, IF TakeLast(value, 1) = "5" THEN "long" ELSE "short"),
                  LAMBDA c1 : UpdateAperturename([c1 EXCEPT !.detector = Upper(value)])))

FGSDetectorSetter(c, value0) ==
    IF ~DetectorAccepted(c.inst, value0) THEN Res(c, "InvalidDetector")
    ELSE UpdateAperturename([c EXCEPT !.detector = Upper(FGSDetectorSynonym(value0))])

-----------------------------------------------------------------------------
(* JWInstrument.set_position_from_aperture_name *)

\* except KeyError: raise ValueError('Not a valid aperture name ...')
KeyErrorToValueError(r) == IF r.err = "KeyError" THEN Res(r.c, "InvalidAperture") ELSE r

SetPositionDetector(c, aperture_name) ==
    LET detname == SplitFirst(aperture_name)
    IN  IF StartsWith(detname, "MIRIFU")
        THEN DetectorSetter([c EXCEPT !.mode = "IFU"],
                 IF Contains(aperture_name, "CHANNEL1") \/ Contains(aperture_name, "CHANNEL2")
                 THEN "MIRIFUSHORT" ELSE "MIRIFULONG")
        ELSE IF StartsWith(detname, "MIRIM")
        THEN DetectorSetter([c EXCEPT !.mode = "imaging"], detname)
        ELSE IF detname # "NRS" THEN DetectorSetter(c, detname)
        ELSE Ok(c)

\* variant: every aperture gives the position from its own geometry entry
SetPositionPositionOwnEntry(c, aperture_name) ==
    IF c.inst = "MIRI" /\ c.siaf[aperture_name].AperType = "COMPOUND"
    THEN DetectorPositionSetter(c, 2 * 512, 2 * 512)
    ELSE DetectorPositionSetter(c, c.siaf[aperture_name].XSciRef, c.siaf[aperture_name].YSciRef)

SetPositionPosition(c, aperture_name) ==
    LET ap == c.siaf[aperture_name]
        full == c.detector \o "_FULL"
    IN  IF c.inst \in {"NIRSpec", "MIRI"} /\ ap.AperType = "SLIT"
        THEN IF full \notin DOMAIN c.siaf THEN Res(c, "KeyError")
             ELSE With(TelToSci(full, aperture_name),
                       LAMBDA sci : DetectorPositionSetter(c, sci[1], sci[2]))
        ELSE IF c.inst = "MIRI" /\ ap.AperType = "COMPOUND"
        THEN DetectorPositionSetter(c, 2 * 512, 2 * 512)
        ELSE DetectorPositionSetter(c, ap.XSciRef, ap.YSciRef)

JWSetPositionFromApertureName(c, aperture_name) ==
    IF aperture_name \notin DOMAIN c.siaf THEN Res(c, "InvalidAperture")
    ELSE KeyErrorToValueError(
             Then(Then(SetPositionDetector(c, aperture_name),
                       LAMBDA c1 : AperturenameSetter(c1, aperture_name)),
                  LAMBDA c2 : SetPositionPosition(c2, aperture_name)))

-----------------------------------------------------------------------------
(* image_mask and pupil_mask setters *)

\* SpaceTelescopeInstrument.image_mask (setter)
BaseImageMaskSetter(c, name) ==
    Then(ImageMaskStore(c, name), LAMBDA c1 :
        IF HasImageMaskApertures(c.inst)
           /\ c1.image_mask \in DOMAIN image_mask_apertures(c.inst)
        THEN SetPositionFromApertureName(c1, image_mask_apertures(c.inst)[c1.image_mask])
        ELSE Ok(c1))

NIRCamImageMaskSetter(c, name) ==
    Then(Then(ImageMaskStore(c, name), LAMBDA c1 : UpdateAperturename(c1)),
         LAMBDA c2 : SetPositionFromApertureName(c2, c2.aper))

\* SpaceTelescopeInstrument.pupil_mask (setter)
BasePupilMaskSetter(c, name0) ==
    With(MaskName(name0, pupil_mask_list(c.inst)), LAMBDA name :
        IF name # None /\ name \notin pupil_mask_list(c.inst) THEN Res(c, "InvalidPupilMask")
        ELSE Ok([c EXCEPT !.pupil_mask = name]))

NIRCamPupilMaskSetter(c, name) ==
    IF name = c.pupil_mask THEN Ok(c)
    ELSE Then(Then(BasePupilMaskSetter(c, name), LAMBDA c1 : UpdateAperturename(c1)),
              LAMBDA c2 : SetPositionFromApertureName(c2, c2.aper))

-----------------------------------------------------------------------------
(* filter, mode and band setters *)

\* MIRI.filter (setter) that pairs the pupil mask whatever auto_pupil says
MIRIFilterSetterAlwaysPairs(c, value) ==
    Then(PoppyFilterSetter(c, value), LAMBDA c1 :
        PupilMaskSetter(c1, IF ~EndsWith(c1.filter, "C") THEN None
                            ELSE IF Ch(c1.filter, 2) = "1" THEN "MASKFQPM"
                            ELSE "MASKLYOT"))

MIRIFilterSetter(c, value) ==
    Then(PoppyFilterSetter(c, value), LAMBDA c1 :
        IF ~c1.auto_pupil THEN Ok(c1)
        ELSE PupilMaskSetter(c1, IF ~EndsWith(c1.filter, "C") THEN None
                                 ELSE IF Ch(c1.filter, 2) = "1" THEN "MASKFQPM"
                                 ELSE "MASKLYOT"))

NIRCamFilterSetter(c, value) ==
    Then(PoppyFilterSetter(c, value), LAMBDA c1 :
        LET numstr == Slice(c1.filter, 1, 4)
            wlnum == IF c1.filter = "WLP4" THEN 212 ELSE IntOf(numstr)
            new_channel == IF wlnum >= 250 THEN "long" ELSE "short"
        IN  IF ~(c1.auto_channel \/ c1.auto_aperturename) THEN Ok(c1)
            ELSE IF c1.filter # "WLP4" /\ ~IsDigits(numstr) THEN Res(c1, "ValueError")
            ELSE Then(IF c1.auto_channel THEN SwitchChannel(c1, new_channel) ELSE Ok(c1),
                      LAMBDA c2 :
                         IF c2.auto_aperturename /\ Channel(c1) # new_channel
                         THEN UpdateAperturename(c2) ELSE Ok(c2)))

NIRISSFilterSetter(c, value) ==
    Then(PoppyFilterSetter(c, value), LAMBDA c1 :
        LET numstr == Slice(c1.filter, 1, 4)
            new_pupil_mask ==
                IF c1.filter = "CLEAR" THEN "GR700XD"
                ELSE IF IntOf(numstr) >= 250
                     THEN IF c1.pupil_mask = None THEN "CLEARP" ELSE c1.pupil_mask
                     ELSE None
        IN  IF ~c1.auto_pupil THEN Ok(c1)
            ELSE IF c1.filter # "CLEAR" /\ ~IsDigits(numstr) THEN Res(c1, "ValueError")
            ELSE IF new_pupil_mask # c1.pupil_mask THEN PupilMaskSetter(c1, new_pupil_mask)
            ELSE Ok(c1))

\* JWInstrument_with_IFU.mode (setter)
ModeSetter(c, value) ==
    IF value \notin DOMAIN modes_list(c.inst) THEN Res(c, "InvalidMode")
    ELSE SetPositionFromApertureName([c EXCEPT !.mode = value], modes_list(c.inst)[value])

\* NIRSpec.band (setter): the band is read-only
NIRSpecBandSetter(c, value) == Res(c, "RuntimeError")

-----------------------------------------------------------------------------
(* Construction: the __init__ chain of each instrument class *)

\* the configuration a call left, whether it raised or not
Left(r) == r.c

\* SpaceTelescopeInstrument.__init__ and JWInstrument.__init__
JWInit(inst, autoFlags) ==
    Left(Then(FilterSetter(
                  [inst |-> inst, siaf |-> Siaf(inst),
                   filter |-> None, image_mask |-> None, pupil_mask |-> None,
                   detector |-> None, pos |-> <<0, 0>>, aper |-> None, geom |-> None,
                   pixelscale |-> 6400, pixelscale_short |-> None, pixelscale_long |-> None,
                   rotation |-> None, mode |-> None, band |-> None,
                   disperser |-> None, npix |-> <<2048, 2048>>,
                   auto_pupil |-> TRUE, include_si_wfe |-> TRUE, auto_channel |-> autoFlags,
                   auto_aperturename |-> autoFlags],
                  filter_list(inst)[1]),
              LAMBDA c1 : DetectorPositionSetter(c1, 2 * 1024, 2 * 1024)))

MIRIInit(c0) ==
    Left(Then(DetectorSetter([c0 EXCEPT !.mode = "imaging",
                                        !.pixelscale = GetPixelscaleFromApername(c0, "MIRIM_FULL").v],
                             "MIRIM"),
              LAMBDA c3 : DetectorPositionSetter([c3 EXCEPT !.npix = <<1032, 1024>>], 2 * 512, 2 * 512)))

NIRCamInit(c0) ==
    With(JWGetPixelscaleFromApername(c0, "NRCA1_FULL").v, LAMBDA short :
        Left(Then(DetectorSetter([c0 EXCEPT !.pixelscale_short = short,
                                            !.pixelscale_long = JWGetPixelscaleFromApername(c0, "NRCA5_FULL").v,
                                            !.pixelscale = short, !.auto_channel = TRUE,
                                            !.auto_aperturename = TRUE, !.filter = "F200W",
                                            !.detector = "NRCA1"],
                                 "NRCA1"),
                  LAMBDA c3 : Ok([c3 EXCEPT !.aper = c3.detector \o "_FULL"]))))

NIRSpecInit(c0) ==
    Left(Then(Then(Then(Then(FilterSetter([c0 EXCEPT !.mode = "imaging"], "F110W"),
                             LAMBDA c2 : ImageMaskSetter(c2, "MSA all open")),
                        LAMBDA c3 : PupilMaskSetter(c3, "NIRSpec grating")),
                   LAMBDA c4 : DetectorSetter(c4, "NRS1")),
              LAMBDA c5 : DetectorPositionSetter(c5, 2 * 1380, 2 * 1024)))

NIRISSInit(c0) == Left(DetectorSetter(c0, "NIS"))

FGSInit(c0) == Left(DetectorSetter(c0, "FGS1"))

\* instrument(name): the constructor of the class of that name
Construct(inst) ==
    With(JWInit(inst, inst # "NIRCam"), LAMBDA c0 :
        CASE inst = "MIRI" -> MIRIInit(c0)
          [] inst = "NIRCam" -> NIRCamInit(c0)
          [] inst = "NIRSpec" -> NIRSpecInit(c0)
          [] inst = "NIRISS" -> NIRISSInit(c0)
          [] inst = "FGS" -> FGSInit(c0))

-----------------------------------------------------------------------------
(* The resolution of a name on the instrument class *)

Dispatch(c, name, value) ==
    CASE name = "aperturename" ->
           ( CASE c.inst = "MIRI" -> MIRIAperturenameSetter(c, value)
               [] c.inst = "NIRCam" -> NIRCamAperturenameSetter(c, value)
               [] c.inst = "NIRSpec" -> NIRSpecAperturenameSetter(c, value)
               [] OTHER -> JWAperturenameSetter(c, value) )
      [] name = "_update_aperturename" ->
           ( CASE c.inst = "MIRI" -> MIRIUpdateAperturename(c)
               [] c.inst = "NIRCam" -> NIRCamUpdateAperturename(c)
               [] OTHER -> BaseUpdateAperturename(c) )
      [] name = "detector" ->
           ( CASE c.inst = "NIRCam" -> NIRCamDetectorSetter(c, value)
               [] c.inst = "FGS" -> FGSDetectorSetter(c, value)
               [] OTHER -> BaseDetectorSetter(c, value) )
      [] name = "image_mask" ->
           IF c.inst = "NIRCam" THEN NIRCamImageMaskSetter(c, value)
           ELSE BaseImageMaskSetter(c, value)
      [] name = "pupil_mask" ->
           IF c.inst = "NIRCam" THEN NIRCamPupilMaskSetter(c, value)
           ELSE BasePupilMaskSetter(c, value)
      [] name = "filter" ->
           ( CASE c.inst = "MIRI" -> MIRIFilterSetter(c, value)
               [] c.inst = "NIRCam" -> NIRCamFilterSetter(c, value)
               [] c.inst = "NIRISS" -> NIRISSFilterSetter(c, value)
               [] OTHER -> PoppyFilterSetter(c, value) )
      [] name = "band" ->
           IF c.inst = "MIRI" THEN MIRIBandSetter(c, value) ELSE NIRSpecBandSetter(c, value)
      [] name = "set_position_from_aperture_name" ->
           JWSetPositionFromApertureName(c, value)

\* frames of a Python call stack that allows no more than RecursionLimit of them
RecursionLimit == 12

\* the configuration, with the count of setter frames on the call stack and the
\* deepest count since the outermost call was made
Traced(c, d) == c @@ [depth |-> d, deepest |-> d]

IsTraced(c) == "depth" \in DOMAIN c

Untraced(c) == [f \in DOMAIN c \ {"depth", "deepest"} |-> c[f]]

\* a call pushes a frame (RecursionError when the stack is full) and the return,
\* or the exception that leaves the call, pops it
SetAttr(c, name, value) ==
    IF ~IsTraced(c) THEN Dispatch(c, name, value)
    ELSE IF c.depth >= RecursionLimit THEN Res(c, "RecursionError")
    ELSE With(Dispatch([c EXCEPT !.depth = @ + 1,
                                 !.deepest = IF c.depth + 1 > @ THEN c.depth + 1 ELSE @],
                       name, value),
              LAMBDA r : Res([r.c EXCEPT !.depth = c.depth], r.err))

Instruments == {"NIRCam", "MIRI", "NIRSpec", "NIRISS", "FGS"}

-----------------------------------------------------------------------------
(* The values the user hands to the setters *)

DetectorInputs(inst) ==
    CASE inst = "NIRCam" -> {"NRCA1", "NRCA2", "NRCA5", "NRCB1", "nrcb5", "NRCALONG", "nrcblong", "NRCC1", "LONG"}
      [] inst = "MIRI" -> {"MIRIM", "mirim", "MIRIFUSHORT", "MIRIFULONG", "MIRIFU", ""}
      [] inst = "NIRSpec" -> {"NRS1", "NRS2", "nrs2", "NRS3"}
      [] inst = "NIRISS" -> {"NIS", "nis", "NIRISS"}
      [] inst = "FGS" -> {"FGS1", "FGS2", "fgs2", "GUIDER1", "guider2", "GUIDER3", "FGS"}

FilterInputs(inst) ==
    CASE inst = "NIRCam" -> {"F200W", "f444w", "WLP4", "F999W"}
      [] inst = "MIRI" -> {"F560W", "F1065C", "f2300c", "F000X"}
      [] inst = "NIRSpec" -> {"F110W", "clear", "F999W"}
      [] inst = "NIRISS" -> {"F090W", "F480M", "CLEAR", "F999W"}
      [] inst = "FGS" -> {"FGS", "F200W"}

ImageMaskInputs(inst) ==
    CASE inst = "NIRCam" -> {None, "", "MASK335R", "maskswb", "MASK999"}
      [] inst = "MIRI" -> {None, "FQPM1065", "lyot2300", "LRS slit", "lrs slit"}
      [] inst = "NIRSpec" -> {None, "MSA all open", "IFU", "S200A1", "s200b1", "ifu2"}
      [] inst = "NIRISS" -> {None, "CORON058", "coron999"}
      [] inst = "FGS" -> {None, "", "MASK335R"}

PupilMaskInputs(inst) ==
    CASE inst = "NIRCam" -> {None, "", "CIRCLYOT", "wedgelyot", "MASKSWB", "WLP8", "MASKX"}
      [] inst = "MIRI" -> {None, "MASKFQPM", "maskLyot", "P750X"}
      [] inst = "NIRSpec" -> {None, "NIRSpec grating", "nirspec grating"}
      [] inst = "NIRISS" -> {None, "CLEARP", "mask_nrm", "GR700"}
      [] inst = "FGS" -> {None, "CLEARP"}

ApertureInputs(inst) ==
    CASE inst = "NIRCam" -> {"NRCA1_FULL", "NRCA1_SUB160", "NRCA5_FULL", "NRCB5_FULL", "NRCB5_MASK335R",
                             "NRCA2_FULL_WEDGE_RND", "NRCZ9_FULL"}
      [] inst = "MIRI" -> {"MIRIM_FULL", "MIRIM_CORON1065", "MIRIM_SLIT", "MIRIFU_CHANNEL1A",
                           "MIRIFU_CHANNEL1B", "MIRIFU_CHANNEL3A", "MIRIM_NONE"}
      [] inst = "NIRSpec" -> {"NRS1_FULL", "NRS2_FULL", "NRS_S200A1_SLIT", "NRS_S200B1_SLIT",
                              "NRS_FULL_IFU", "NRS9_FULL"}
      [] inst = "NIRISS" -> {"NIS_CEN", "NIS_SUB128", "NIS_NONE"}
      [] inst = "FGS" -> {"FGS1_FULL", "FGS2_FULL", "FGS1_SUB128CNTR", "FGS3_FULL"}

\* integer pixel pairs (X, Y) around the edges of the instrument's detector
PositionInputs(inst) ==
    IF inst = "MIRI"
    THEN {<<0, 0>>, <<-1, 0>>, <<0, -1>>, <<1023, 1031>>, <<1024, 1031>>, <<1023, 1032>>}
    ELSE {<<0, 0>>, <<-1, 0>>, <<0, -1>>, <<2047, 2047>>, <<2048, 2047>>, <<2047, 2048>>, <<2048, 2048>>}

\* a pixel scale no aperture has, and the NIRCam short-wave default
PixelscaleInputs(inst) == IF inst = "NIRCam" THEN {5000, pixelscale_short} ELSE {5000}

ModeInputs == {"imaging", "IFU", "spectroscopy"}

BandInputs(inst) == IF inst = "MIRI" THEN {None, "1B", "3A", "5A"} ELSE {None, "PRISM/CLEAR"}

-----------------------------------------------------------------------------
(* get_optical_system: the plane stack assembled for the configuration.    *)
(* A plane is its kind (pupil, image, inversion, rotation, detector), its  *)
(* name and one parameter. The options are a dictionary from option names  *)
(* to values; o is the instrument's own self.options.                      *)

Plane(kind, name, param) == [kind |-> kind, name |-> name, param |-> param]

\* no index given: OpticalSystem.add_pupil, add_image append
NoIndex == -1

\* planes.insert(index, plane), planes.append(plane)
AddPlane(planes, plane, index) ==
    IF index = NoIndex \/ index >= Len(planes) THEN Append(planes, plane)
    ELSE SubSeq(planes, 1, index) \o <<plane>> \o SubSeq(planes, index + 1, Len(planes))

\* planes.pop(i)
Pop(planes, i) == SubSeq(planes, 1, i) \o SubSeq(planes, i + 2, Len(planes))

\* 'k' in o;  'k' in o and o['k'];  o.get('k', default)
OptHas(o, k) == k \in DOMAIN o

OptTrue(o, k) == k \in DOMAIN o /\ o[k]

OptGet(o, k, default) == IF k \in DOMAIN o THEN o[k] ELSE default

\* self._rotation is None: only MIRI (2083, 2473) and NIRSpec (3183, 3372) ever
\* assign it
RotationIsNone(c) == c.inst \notin {"MIRI", "NIRSpec"}

\* what _addAdditionalOptics returns, or the exception it raised
Optics(planes, trySAM, class) == [planes |-> planes, trySAM |-> trySAM, class |-> class, err |-> NoErr]

OpticsErr(planes, tag) == [planes |-> planes, trySAM |-> FALSE, class |-> "OpticalSystem", err |-> tag]

\* MIRI: the planes between the two FQPM aligners
MIRIImagePlanes(c, o, planes) ==
    With((c.image_mask # None /\ Contains(c.image_mask, "FQPM")) \/ OptHas(o, "force_fqpm_shift"),
         LAMBDA fqpm :
            (IF fqpm THEN Append(planes, Plane("pupil", "FQPM FFT aligner", 0)) ELSE planes)
            \o <<Plane("image", IF c.image_mask \in image_mask_list("MIRI") THEN c.image_mask ELSE "unnamed", 0)>>
            \o (IF fqpm THEN <<Plane("pupil", "FQPM FFT aligner backward", 0)>> ELSE << >>))

\* MIRI: the pupil plane mask
MIRIPupilPlane(c) ==
    IF c.pupil_mask \in {"MASKFQPM", "MASKLYOT"} THEN Plane("pupil", c.pupil_mask, 0)
    ELSE IF c.pupil_mask = "P750L" \/ c.image_mask = "LRS slit"
    THEN Plane("pupil", IF c.pupil_mask # None THEN c.pupil_mask ELSE "MIRI internal pupil stop", 0)
    ELSE Plane("pupil", "filter cold stop", 0)

\* MIRI._addAdditionalOptics
\* variant: the plane after the rotation is removed whether or not it is the
\* aberration plane
MIRIAddAdditionalOpticsPoppingTwice(c, o, planes0) ==
    With(Pop(planes0, 2), LAMBDA p1 :
    With(Pop(p1, 2), LAMBDA p2 :
    With(MIRIImagePlanes(c, o, p2), LAMBDA p3 :
        IF OptGet(o, "coron_include_pre_lyot_plane", FALSE) /\ c.pupil_mask = None
        THEN OpticsErr(p3, "AttributeError")
        ELSE Optics(
                 (IF OptGet(o, "coron_include_pre_lyot_plane", FALSE) /\ StartsWith(c.pupil_mask, "MASK")
                  THEN Append(p3, Plane("pupil", "Pre Lyot Stop", 0)) ELSE p3)
                 \o <<MIRIPupilPlane(c), Plane("rotation", "Rotation", -c.rotation)>>
                 \o (IF c.include_si_wfe THEN <<p1[3]>> ELSE << >>),
                 FALSE,
                 IF c.image_mask = "LRS slit" /\ OptGet(o, "lrs_use_mft", TRUE)
                 THEN "MatrixFTCoronagraph" ELSE "OpticalSystem"))))

MIRIAddAdditionalOptics(c, o, planes0) ==
    With(Pop(planes0, 2), LAMBDA p1 :
    With(IF c.include_si_wfe THEN Pop(p1, 2) ELSE p1, LAMBDA p2 :
    With(MIRIImagePlanes(c, o, p2), LAMBDA p3 :
        IF OptGet(o, "coron_include_pre_lyot_plane", FALSE) /\ c.pupil_mask = None
        THEN OpticsErr(p3, "AttributeError")
        ELSE Optics(
                 (IF OptGet(o, "coron_include_pre_lyot_plane", FALSE) /\ StartsWith(c.pupil_mask, "MASK")
                  THEN Append(p3, Plane("pupil", "Pre Lyot Stop", 0)) ELSE p3)
                 \o <<MIRIPupilPlane(c), Plane("rotation", "Rotation", -c.rotation)>>
                 \o (IF c.include_si_wfe THEN <<p1[3]>> ELSE << >>),
                 FALSE,
                 IF c.image_mask = "LRS slit" /\ OptGet(o, "lrs_use_mft", TRUE)
                 THEN "MatrixFTCoronagraph" ELSE "OpticalSystem"))))

\* NIRCam: the image plane, inserted at index 2
\* float(v) succeeds: a number, or a string that spells a decimal number
IsFloat(v) ==
    \/ v.int
    \/ LET t == IF Len(v.s) > 0 /\ Ch(v.s, 1) \in {"-", "+"} THEN SubSeq(v.s, 2, Len(v.s)) ELSE v.s
           dots == {i \in 1..Len(t) : Ch(t, i) = "."}
       IN  /\ Cardinality(dots) <= 1
           /\ \E i \in 1..Len(t) : i \notin dots
           /\ \A i \in 1..Len(t) : i \in dots \/ IsDigits(Ch(t, i))

NoValue == [int |-> FALSE, n |-> 0, s |-> None]

\* NIRCam._addAdditionalOptics, lines 2950-2983: the bar_offset and auto_offset
\* keywords of a bar occulter
BarOffset(c, o) ==
    IF ~OptHas(o, "bar_offset")
    THEN [bar_offset |-> NoValue,
          auto_offset |-> IF Contains(c.aper, "MASK")
                          THEN IF SplitLast(c.aper) = "NARROW" THEN "narrow"
                               ELSE IF StartsWith(SplitLast(c.aper), "F") THEN SplitLast(c.aper)
                               ELSE c.filter
                          ELSE c.filter]
    ELSE IF IsFloat(o["bar_offset"])
    THEN [bar_offset |-> o["bar_offset"], auto_offset |-> None]
    ELSE [bar_offset |-> NoValue, auto_offset |-> o["bar_offset"].s]

NIRCamImagePlane(c, o, planes) ==
    IF c.image_mask \in {"MASK210R", "MASK335R", "MASK430R"}
    THEN AddPlane(planes, Plane("image", c.image_mask, 0), 2)
    ELSE IF c.image_mask \in {"MASKSWB", "MASKLWB"}
    THEN AddPlane(planes, Plane("image", c.image_mask, 0) @@ BarOffset(c, o), 2)
    ELSE IF c.pupil_mask # None /\ ~Contains(Upper(c.pupil_mask), "LENS")
            /\ ~Contains(Upper(c.pupil_mask), "WL") /\ ~Contains(Upper(c.pupil_mask), "DHS")
    THEN AddPlane(planes, Plane("image", "No Image Mask Selected!", 0), 2)
    ELSE planes

\* NIRCam: the name of the weak lens in the pupil, None if there is none
NIRCamWeakLens(c) ==
    CASE c.pupil_mask \in {"WEAK LENS +4", "WLP4"} \/ (c.filter = "WLP4" /\ c.pupil_mask = None) -> "WLP4"
      [] c.pupil_mask = "WEAK LENS +8" \/ (c.pupil_mask = "WLP8" /\ c.filter # "WLP4") -> "WLP8"
      [] c.pupil_mask = "WEAK LENS -8" \/ (c.pupil_mask = "WLM8" /\ c.filter # "WLP4") -> "WLM8"
      [] c.pupil_mask \in {"WEAK LENS +12 (=4+8)", "WLP12"} \/ (c.pupil_mask = "WLP8" /\ c.filter = "WLP4") -> "WLP12"
      [] c.pupil_mask \in {"WEAK LENS -4 (=4-8)", "WLM4"} \/ (c.pupil_mask = "WLM8" /\ c.filter = "WLP4") -> "WLM4"
      [] OTHER -> None

\* NIRCam._addAdditionalOptics
NIRCamAddAdditionalOptics(c, o, planes0) ==
    With(NIRCamImagePlane(c, o, planes0), LAMBDA p1 :
    With(IF c.pupil_mask \in {"CIRCLYOT", "MASKRND", "WEDGELYOT", "MASKSWB", "MASKLWB"}
         THEN Optics(AddPlane(p1, Plane("pupil", c.pupil_mask, 0), 3), FALSE, "OpticalSystem")
         ELSE IF NIRCamWeakLens(c) # None
         THEN Optics(AddPlane(p1, Plane("pupil", NIRCamWeakLens(c), 0), 3), FALSE, "OpticalSystem")
         ELSE IF c.pupil_mask = None /\ c.image_mask # None
         THEN Optics(AddPlane(p1, Plane("pupil", "No Lyot Mask Selected!", 0), 3), FALSE, "OpticalSystem")
         ELSE IF c.pupil_mask = None THEN OpticsErr(p1, "AttributeError")
         ELSE IF StartsWith(c.pupil_mask, "DHS")
         THEN Optics(AddPlane(p1, Plane("pupil", c.pupil_mask, 0), 3), FALSE, "OpticalSystem")
         ELSE Optics(Append(p1, Plane("pupil", "filter stop", 0)), FALSE, "OpticalSystem"),
         LAMBDA r :
            IF r.err # NoErr \/ ~OptGet(o, "coron_include_pre_lyot_plane", FALSE) THEN r
            ELSE IF c.pupil_mask = None THEN OpticsErr(r.planes, "AttributeError")
            ELSE IF StartsWith(c.pupil_mask, "MASK")
            THEN Optics(AddPlane(r.planes, Plane("pupil", "Pre Lyot Stop", 0), 3), FALSE, "OpticalSystem")
            ELSE r))

\* NIRSpec._addAdditionalOptics
NIRSpecAddAdditionalOptics(c, o, planes0) ==
    Optics(planes0
           \o (IF c.image_mask \in {"S200A1", "S200A2", "S200B1", "S400A1", "S1600A1", "IFU", "MSA all open",
                                    "Single MSA open shutter", "Three adjacent MSA open shutters"}
               THEN <<Plane("image", c.image_mask, 0)>> ELSE << >>)
           \o (IF c.pupil_mask # None /\ Contains(Upper(c.pupil_mask), "GRATING")
               THEN <<Plane("pupil", "Pupil stop at grating wheel", 0)>> ELSE << >>)
           \o (IF c.include_si_wfe THEN <<Plane("pupil", "SI WFE spectrograph", 0)>> ELSE << >>)
           \o (IF c.mode = "IFU" /\ OptGet(o, "ifualign_rotation", TRUE)
               THEN <<Plane("rotation", "Rotation", 90000)>> ELSE << >>),
           FALSE, "OpticalSystem")

\* NIRISS._addAdditionalOptics
\* constants.JWST_CIRCUMSCRIBED_DIAMETER, in micrometres
JWST_CIRCUMSCRIBED_DIAMETER == 6603464

\* a shift of an optical element (in nanometres), or None
Shift(n) == [given |-> TRUE, v |-> n]

NoShift == [given |-> FALSE, v |-> 0]

\* JWInstrument._get_pupil_shift; the options are numbers, in thousandths of
\* the pupil
GetPupilShift(o) ==
    IF (OptHas(o, "pupil_shift_x") /\ o["pupil_shift_x"] # 0)
       \/ (OptHas(o, "pupil_shift_y") /\ o["pupil_shift_y"] # 0)
    THEN [shift_x |-> Shift(OptGet(o, "pupil_shift_x", 0) * JWST_CIRCUMSCRIBED_DIAMETER),
          shift_y |-> Shift(OptGet(o, "pupil_shift_y", 0) * JWST_CIRCUMSCRIBED_DIAMETER)]
    ELSE [shift_x |-> NoShift, shift_y |-> NoShift]

\* NIRISS._addAdditionalOptics, lines 3545-3561: the pupil plane mask
NIRISSPupilPlane(c, shift) ==
    IF c.pupil_mask \in {"MASK_NRM", "CLEARP"}
    THEN Plane("pupil", c.pupil_mask, 0) @@ [shift_x |-> shift.shift_x, shift_y |-> shift.shift_y]
    ELSE Plane("pupil", c.pupil_mask, 0) @@ [shift_x |-> shift.shift_y, shift_y |-> shift.shift_y]

NIRISSAddAdditionalOptics(c, o, planes0) ==
    Optics(planes0
           \o (IF c.image_mask \in {"CORON058", "CORON075", "CORON150", "CORON200"}
               THEN <<Plane("image", c.image_mask, 0)>> ELSE << >>)
           \o (IF c.pupil_mask \in {"MASK_NRM", "CLEARP", "GR700XD"}
               THEN <<NIRISSPupilPlane(c, GetPupilShift(o))>>
               ELSE IF c.pupil_mask = None /\ c.image_mask # None
               THEN <<Plane("pupil", "No Lyot Mask Selected!", 0)>> ELSE << >>),
           c.image_mask \in {"CORON058", "CORON075", "CORON150", "CORON200"},
           "OpticalSystem")

\* FGS._addAdditionalOptics(self, optsys) takes no oversample: the call
\* self._addAdditionalOptics(optsys, oversample=fft_oversample) is a TypeError
\* before the body, which raises NotImplementedError, is entered
FGSAddAdditionalOptics(c, o, planes0) == OpticsErr(planes0, "TypeError")

\* self._addAdditionalOptics(optsys, oversample=fft_oversample)
AddAdditionalOptics(c, o, planes0) ==
    CASE c.inst = "MIRI" -> MIRIAddAdditionalOptics(c, o, planes0)
      [] c.inst = "NIRCam" -> NIRCamAddAdditionalOptics(c, o, planes0)
      [] c.inst = "NIRSpec" -> NIRSpecAddAdditionalOptics(c, o, planes0)
      [] c.inst = "NIRISS" -> NIRISSAddAdditionalOptics(c, o, planes0)
      [] c.inst = "FGS" -> FGSAddAdditionalOptics(c, o, planes0)

\* the planes up to the defocus lens: entrance pupil, inversion, rotation,
\* instrument aberrations, defocus
EntrancePlanesRotationNotNegated(c, opts) ==
    <<Plane("pupil", "JWST Entrance Pupil", 0), Plane("inversion", "OTE exit pupil", 0)>>
    \o (IF RotationIsNone(c) THEN << >> ELSE <<Plane("rotation", "Rotation", c.rotation)>>)
    \o (IF c.include_si_wfe THEN <<Plane("pupil", "SI WFE", 0)>> ELSE << >>)
    \o (IF OptHas(opts, "defocus_waves") THEN <<Plane("pupil", "Defocus", 0)>> ELSE << >>)

EntrancePlanesRotationFirst(c, opts) ==
    <<Plane("pupil", "JWST Entrance Pupil", 0)>>
    \o (IF RotationIsNone(c) THEN << >> ELSE <<Plane("rotation", "Rotation", -c.rotation)>>)
    \o <<Plane("inversion", "OTE exit pupil", 0)>>
    \o (IF c.include_si_wfe THEN <<Plane("pupil", "SI WFE", 0)>> ELSE << >>)
    \o (IF OptHas(opts, "defocus_waves") THEN <<Plane("pupil", "Defocus", 0)>> ELSE << >>)

EntrancePlanes(c, opts) ==
    <<Plane("pupil", "JWST Entrance Pupil", 0), Plane("inversion", "OTE exit pupil", 0)>>
    \o (IF RotationIsNone(c) THEN << >> ELSE <<Plane("rotation", "Rotation", -c.rotation)>>)
    \o (IF c.include_si_wfe THEN <<Plane("pupil", "SI WFE", 0)>> ELSE << >>)
    \o (IF OptHas(opts, "defocus_waves") THEN <<Plane("pupil", "Defocus", 0)>> ELSE << >>)

WantsAdditionalOpticsForMasksOnly(c, opts) ==
    \/ c.image_mask # None
    \/ c.pupil_mask # None
    \/ OptTrue(opts, "force_coron")

\* whether instrument-internal optics are added
WantsAdditionalOptics(c, opts) ==
    \/ c.image_mask # None
    \/ c.pupil_mask # None
    \/ Contains(c.filter, "WL")
    \/ OptTrue(opts, "force_coron")

\* what get_optical_system returns: the planes, the class of the optical
\* system, whether the semi-analytic shortcut was attempted, and the exception
\* raised if any (then no optical system is returned)
OpticalSystem(planes, class, tried) == [planes |-> planes, class |-> class, tried |-> tried, err |-> NoErr]

NoOpticalSystem(tag) == [planes |-> << >>, class |-> None, tried |-> FALSE, err |-> tag]

\* np.round(a / b) for a >= 0, b > 0: to the nearest whole number, a half to
\* the even one
Round(a, b) ==
    IF 2 * (a % b) < b THEN a \div b
    ELSE IF 2 * (a % b) > b THEN (a \div b) + 1
    ELSE IF (a \div b) % 2 = 0 THEN a \div b ELSE (a \div b) + 1

\* fov_pixels is None
NoFov == << >>

\* get_optical_system, lines 506-517: the field of view in pixels; a field of
\* view is one number, or two (np.isscalar is false).  The truth value of the
\* comparison of an array of two numbers raises ValueError
FovPixels(c, opts, fov_arcsec, fov_pixels) ==
    IF fov_pixels # NoFov THEN SVal(fov_pixels)
    ELSE With([i \in DOMAIN fov_arcsec |-> Round(fov_arcsec[i], c.pixelscale)], LAMBDA fov :
            IF ~OptHas(opts, "parity") \/ Lower(opts["parity"]) \notin {"odd", "even"} THEN SVal(fov)
            ELSE IF Len(fov) > 1 THEN SErr("ValueError")
            ELSE IF Lower(opts["parity"]) = "odd" /\ fov[1] % 2 = 0 THEN SVal(<<fov[1] + 1>>)
            ELSE IF Lower(opts["parity"]) = "even" /\ fov[1] % 2 = 1 THEN SVal(<<fov[1] + 1>>)
            ELSE SVal(fov))

\* the options argument: None, or a dictionary
NoneOptions == [is_none |-> TRUE, dict |-> << >>]

GivenOptions(d) == [is_none |-> FALSE, dict |-> d]

\* SpaceTelescopeInstrument.get_optical_system(fft_oversample, options=given):
\* o is self.options, given the options argument (None: use self.options),
\* ok whether poppy.SemiAnalyticCoronagraph accepts the planes
GetOpticalSystem(c, o, given, fft_oversample, ok) ==
    With(IF given.is_none THEN o ELSE given.dict, LAMBDA opts :
    With(IF WantsAdditionalOptics(c, opts) THEN AddAdditionalOptics(c, o, EntrancePlanes(c, opts))
         ELSE Optics(EntrancePlanes(c, opts), FALSE, "OpticalSystem"),
         LAMBDA r :
            IF r.err # NoErr THEN NoOpticalSystem(r.err)
            ELSE With(Append(r.planes, Plane("detector", c.inst \o " detector", c.pixelscale * fft_oversample)),
                      LAMBDA planes :
                         IF r.trySAM /\ ~OptTrue(o, "no_sam")
                         THEN OpticalSystem(planes, IF ok THEN "SemiAnalyticCoronagraph" ELSE r.class, TRUE)
                         ELSE OpticalSystem(planes, r.class, FALSE))))

-----------------------------------------------------------------------------
(* The state machine: one instrument object and the calls made on it.      *)
(* cfg is the object's configuration, last the call made last and how it   *)
(* ended, pinned whether the user has assigned pixelscale directly, failed  *)
(* whether some call has raised, ops the widest class of call made so far, *)
(* calls the number of calls made so far, repeated whether the last call   *)
(* was the same call, with the same argument, as the successful call       *)
(* before it.                                                              *)

\* classes of calls: the five synchronising setters; those and the mode, band and
\* set_position_from_aperture_name calls; any call
CoreOps == {"setDetector", "setFilter", "setImageMask", "setPupilMask", "setApertureName"}

ConfigOps == CoreOps \cup {"setMode", "setBand", "setPositionFromApertureName"}

OpClass(op) == IF op \in CoreOps THEN "core" ELSE IF op \in ConfigOps THEN "config" ELSE "any"

Widest(a, b) ==
    IF a = "any" \/ b = "any" THEN "any" ELSE IF a = "config" \/ b = "config" THEN "config" ELSE "core"

\* the longest sequence of calls explored
MaxCalls == 3

\* no options set, no optical system assembled yet
\* _IFU_bands_cubepars of MIRI and NIRSpec: band -> <<spectral step, minimum
\* wavelength, maximum wavelength>>, in 1e-4 micron
IFU_bands_waves(inst) ==
    IF inst = "MIRI"
    THEN ( "1A" :> <<8, 49000, 57400>> @@ "1B" :> <<8, 56600, 66300>> @@ "1C" :> <<8, 65300, 76500>>
        @@ "2A" :> <<13, 75100, 87700>> @@ "2B" :> <<13, 86700, 101300>> @@ "2C" :> <<13, 100100, 117000>>
        @@ "3A" :> <<25, 115500, 134700>> @@ "3B" :> <<25, 133400, 155700>> @@ "3C" :> <<25, 154100, 179800>>
        @@ "4A" :> <<60, 177000, 209500>> @@ "4B" :> <<60, 206900, 244800>> @@ "4C" :> <<60, 244000, 287000>> )
    ELSE ( "PRISM/CLEAR" :> <<50, 6000, 53000>>
        @@ "G140M/F070LP" :> <<6, 7000, 12700>> @@ "G140M/F100LP" :> <<6, 9700, 18900>>
        @@ "G140H/F070LP" :> <<2, 7000, 12700>> @@ "G140H/F100LP" :> <<2, 9700, 18900>>
        @@ "G235M/F170LP" :> <<11, 16600, 31700>> @@ "G235H/F170LP" :> <<4, 16600, 31700>>
        @@ "G395M/F290LP" :> <<18, 28700, 52700>> @@ "G395H/F290LP" :> <<7, 28700, 52700>> )

\* self.band (getter) of MIRI and NIRSpec
Band(c) ==
    IF c.mode # "IFU" THEN None
    ELSE IF c.inst = "MIRI" THEN c.band ELSE c.disperser \o "/" \o c.filter

\* the wavelengths np.linspace and np.arange return: the first, the last, how many
Wavelengths(first, final, n) == [first |-> first, final |-> final, n |-> n]

\* JWInstrument_with_IFU.get_IFU_wavelengths(nlambda); nlambda 0 stands for None
GetIFUWavelengths(c, nlambda) ==
    IF c.mode # "IFU" THEN SErr("RuntimeError")
    ELSE IF Band(c) \notin DOMAIN IFU_bands_waves(c.inst) THEN SErr("KeyError")
    ELSE With(IFU_bands_waves(c.inst)[Band(c)], LAMBDA p :
            IF nlambda # 0
            THEN SVal(Wavelengths(p[2], p[3], nlambda))
            ELSE With((p[3] - p[2] + p[1] - 1) \div p[1], LAMBDA n :
                    SVal(Wavelengths(p[2], p[2] + (n - 1) * p[1], n))))

-----------------------------------------------------------------------------
(* The formatting of a computed PSF: the extensions of the result, and its *)
(* header.  An extension is its name, the computation its data come from,  *)
(* whether the data are binned to detector pixels, the corrections applied *)
(* to the data in order, and the MODE keyword of its header.               *)

HDU(name, data, binned, applied, mode) ==
    [name |-> name, data |-> data, binned |-> binned, applied |-> applied, mode |-> mode]

\* what the propagation hands to the formatter: one oversampled image
RawResult == <<HDU("OVERSAMP", "psf", FALSE, << >>, None)>>

\* the corrections of distortion.py and detectors.py: a correction changes
\* the data of the extensions added for the corrected images, the ones named
\* ...DIST, and leaves the other extensions as they are
ApplyCorrection(hdulist, kind) ==
    [i \in DOMAIN hdulist |->
        IF EndsWith(hdulist[i].name, "DIST")
        THEN [hdulist[i] EXCEPT !.applied = Append(@, kind)] ELSE hdulist[i]]

\* detectors.apply_detector_ipc(hdulist, extname): corrects the named extension
ApplyDetectorIpc(hdulist, extname) ==
    [i \in DOMAIN hdulist |->
        IF hdulist[i].name = extname
        THEN [hdulist[i] EXCEPT !.applied = Append(@, "ipc")] ELSE hdulist[i]]

\* 'EXTNAME' in hdulist
HasExtension(hdulist, extname) == \E i \in DOMAIN hdulist : hdulist[i].name = extname

RECURSIVE AppendDistExtensionsFromSharedHeader(_, _, _)
AppendDistExtensionsFromSharedHeader(hdulist, ext, n_exts) ==
    IF ext > n_exts THEN hdulist
    ELSE AppendDistExtensionsFromSharedHeader(
             Append([hdulist EXCEPT ![ext].name = Slice(@, 0, 4) \o "DIST"],
                    [hdulist[ext] EXCEPT !.name = Slice(@, 0, 4) \o "DIST"]),
             ext + 1, n_exts)

\* JWInstrument._calc_psf_format_output, lines 1261-1267: for each extension a
\* new ImageHDU of its data and a copy of its header, renamed
RECURSIVE AppendDistExtensions(_, _, _)
AppendDistExtensions(hdulist, ext, n_exts) ==
    IF ext > n_exts THEN hdulist
    ELSE AppendDistExtensions(
             Append(hdulist, [hdulist[ext] EXCEPT !.name = Slice(@, 0, 4) \o "DIST"]),
             ext + 1, n_exts)

\* lines 1269-1308: the corrections of the instrument, in their order
ApplyInstrumentCorrections(c, hdulist, crop_psf) ==
    IF c.inst \in {"NIRCam", "NIRISS", "FGS"}
    THEN ApplyCorrection(ApplyCorrection(ApplyCorrection(hdulist,
             IF crop_psf THEN "rotation, cropped" ELSE "rotation"), "distortion"), "charge diffusion")
    ELSE IF c.inst = "MIRI"
    THEN IF c.mode # "IFU"
         THEN ApplyCorrection(ApplyCorrection(
                  IF c.siaf[c.aper].AperType # "SLIT" THEN ApplyCorrection(hdulist, "distortion") ELSE hdulist,
                  "MIRI scattering"), "charge diffusion")
         ELSE ApplyCorrection(hdulist, "MIRI IFU broadening")
    ELSE IF c.mode # "IFU"
         THEN ApplyCorrection(ApplyCorrection(hdulist, "distortion"), "charge diffusion")
         ELSE ApplyCorrection(hdulist, "NIRSpec IFU broadening")

\* poppy.Instrument._calc_psf_format_output: the output mode keeps the
\* oversampled images, replaces them by images binned to detector pixels, or
\* puts the binned image after each oversampled one
BinnedHDU(hdu) == [hdu EXCEPT !.name = "DET_" \o TakeLast(@, 4), !.binned = TRUE]

RECURSIVE PoppyFormatOutput(_, _)
PoppyFormatOutput(hdulist, output_mode) ==
    IF hdulist = << >> \/ output_mode = "oversampled" THEN hdulist
    ELSE (IF output_mode = "both" THEN <<Head(hdulist), BinnedHDU(Head(hdulist))>> ELSE <<BinnedHDU(Head(hdulist))>>)
         \o PoppyFormatOutput(Tail(hdulist), output_mode)

\* JWInstrument._calc_psf_format_output(hdulist, options)
JWCalcPsfFormatOutput(c, hdulist, opts) ==
    With(IF OptGet(opts, "add_distortion", TRUE)
         THEN ApplyInstrumentCorrections(c, AppendDistExtensions(hdulist, 1, Len(hdulist)),
                                         OptGet(opts, "crop_psf", TRUE))
         ELSE hdulist,
         LAMBDA distorted :
    With(PoppyFormatOutput(distorted, opts["output_mode"]), LAMBDA sampled :
    With(IF OptGet(opts, "add_ipc", TRUE) /\ OptGet(opts, "add_distortion", TRUE) /\ HasExtension(sampled, "DET_DIST")
         THEN ApplyDetectorIpc(sampled, "DET_DIST") ELSE sampled,
         LAMBDA r1 :
            IF OptGet(opts, "add_ipc", TRUE) /\ OptGet(opts, "add_distortion", TRUE) /\ HasExtension(r1, "OVERDIST")
            THEN ApplyDetectorIpc(r1, "OVERDIST") ELSE r1)))

\* MIRI._calc_psf_format_output, NIRSpec._calc_psf_format_output: the
\* formatter of JWInstrument, then the MODE keyword in IFU mode
CalcPsfFormatOutput(c, hdulist, opts) ==
    With(JWCalcPsfFormatOutput(c, hdulist, opts), LAMBDA r :
        IF c.inst \in {"MIRI", "NIRSpec"} /\ c.mode = "IFU"
        THEN [i \in DOMAIN r |-> [r[i] EXCEPT !.mode = "IFU"]] ELSE r)

\* the keywords SpaceTelescopeInstrument._get_fits_header writes; DET_X and
\* DET_Y in half pixels
Header(c, dpos) ==
    [FILTER |-> c.filter, CORONMSK |-> c.image_mask, PUPIL |-> c.pupil_mask,
     DET_NAME |-> c.detector, DET_X |-> dpos[1], DET_Y |-> dpos[2]]

GetFitsHeaderBySize(c, oversamp, size) ==
    IF size % 2 = 0
    THEN Header(c, <<2 * c.pos[1] + 1, 2 * c.pos[2] + 1>>)
    ELSE Header(c, <<2 * c.pos[1], 2 * c.pos[2]>>)

\* SpaceTelescopeInstrument._get_fits_header(result, options), with
\* oversamp = result[0].header['OVERSAMP'] and size = result[0].data.shape[0]:
\* size / oversamp is a float, and a multiple of 2 only when it is whole
GetFitsHeader(c, oversamp, size) ==
    IF size % oversamp = 0 /\ (size \div oversamp) % 2 = 0
    THEN Header(c, <<2 * c.pos[1] + 1, 2 * c.pos[2] + 1>>)
    ELSE Header(c, <<2 * c.pos[1], 2 * c.pos[2]>>)

-----------------------------------------------------------------------------
(* segname: the name of a mirror segment.  The argument is an integer or a *)
(* string.                                                                 *)

IntVal(n) == [int |-> TRUE, n |-> n, s |-> ""]

StrVal(s) == [int |-> FALSE, n |-> 0, s |-> s]

\* '{0}'.format(n) for 0 <= n < 100
Format(n) == IF n < 10 THEN Digits[n + 1] ELSE Digits[(n \div 10) + 1] \o Digits[(n % 10) + 1]

\* base = {'A': 0, 'B': 5, 'C': 6}
SegmentBase == [A |-> 0, B |-> 5, C |-> 6]

\* segname, lines 3847-3861: what the except clause does with val
SegnameOfString(val) ==
    IF val.int THEN SErr("AttributeError")
    ELSE IF StartsWith(val.s, "SM") THEN SVal("SM-19")
    ELSE IF Len(val.s) = 0 \/ Ch(val.s, 1) \notin DOMAIN SegmentBase THEN SErr("ValueError")
    ELSE IF Len(val.s) < 2 THEN SErr("IndexError")
    ELSE IF ~IsDigits(Ch(val.s, 2)) THEN SErr("ValueError")
    ELSE With(IntOf(Ch(val.s, 2)), LAMBDA num :
            IF num < 1 \/ num > 6 THEN SErr("ValueError")
            ELSE IF Ch(val.s, 1) = "A" THEN SVal(Slice(val.s, 0, 2) \o "-" \o Ch(val.s, 2))
            ELSE SVal(Slice(val.s, 0, 2) \o "-" \o Format(SegmentBase[Ch(val.s, 1)] + num * 2)))

\* segname(val): int(val) raises ValueError for a string that is no number;
\* every ValueError raised in the try block is handled by the except clause
Segname(val) ==
    IF ~val.int /\ ~IsDigits(val.s) THEN SegnameOfString(val)
    ELSE With(IF val.int THEN val.n ELSE IntOf(val.s), LAMBDA intval :
            IF intval < 1 \/ intval > 19 THEN SegnameOfString(val)
            ELSE IF intval < 7 THEN SVal("A" \o Format(intval) \o "-" \o Format(intval))
            ELSE IF intval = 19 THEN SVal("SM-19")
            ELSE SVal((IF intval % 2 = 1 THEN "B" ELSE "C") \o Format((intval - 6 + 1) \div 2)
                      \o "-" \o Format(intval)))

OpticsIdle == options = << >> /\ osys = NoOpticalSystem(None) /\ sam_ok = FALSE

InitInstrument ==
    /\ \E inst \in Instruments : cfg = Construct(inst)
    /\ last = [op |-> "construct", arg |-> None, err |-> NoErr]
    /\ pinned = FALSE
    /\ failed = FALSE
    /\ ops = "core"
    /\ calls = 0
    /\ repeated = FALSE

\* the threads that construct instruments
Threads == {1, 2}

\* JWInstrument.__init__, line 805: the construction of the instrument has
\* loaded its geometry table, once; no other construction is under way
SiafLoaded ==
    /\ siaf_cache = {cfg.inst}
    /\ loads = [n \in Instruments |-> IF n = cfg.inst THEN 1 ELSE 0]
    /\ thread = [t \in Threads |-> [pc |-> "idle", name |-> None]]

\* no method has returned a value yet
NoResult == result = SVal(None)

Init == InitInstrument /\ OpticsIdle /\ SiafLoaded /\ NoResult

Called(op, arg, r) ==
    /\ calls < MaxCalls
    /\ calls' = calls + 1
    /\ cfg' = r.c
    /\ last' = [op |-> op, arg |-> arg, err |-> r.err]
    /\ failed' = (failed \/ r.err # NoErr)
    /\ ops' = Widest(ops, OpClass(op))
    /\ repeated' = (last.op = op /\ last.arg = arg /\ last.err = NoErr)
    /\ UNCHANGED <<pinned, aux>>

setDetector == \E v \in DetectorInputs(cfg.inst) : Called("setDetector", v, DetectorSetter(cfg, v))

setFilter == \E v \in FilterInputs(cfg.inst) : Called("setFilter", v, FilterSetter(cfg, v))

setImageMask == \E v \in ImageMaskInputs(cfg.inst) : Called("setImageMask", v, ImageMaskSetter(cfg, v))

setPupilMask == \E v \in PupilMaskInputs(cfg.inst) : Called("setPupilMask", v, PupilMaskSetter(cfg, v))

setApertureName == \E v \in ApertureInputs(cfg.inst) : Called("setApertureName", v, AperturenameSetter(cfg, v))

setDetectorPixelPosition ==
    \E p \in PositionInputs(cfg.inst) : Called("setDetectorPixelPosition", p, DetectorPositionSetter(cfg, 2 * p[1], 2 * p[2]))

setPositionFromApertureName ==
    \E v \in ApertureInputs(cfg.inst) :
        Called("setPositionFromApertureName", v, SetPositionFromApertureName(cfg, v))

setMode ==
    /\ cfg.inst \in {"MIRI", "NIRSpec"}
    /\ \E v \in ModeInputs : Called("setMode", v, ModeSetter(cfg, v))

setBand ==
    /\ cfg.inst \in {"MIRI", "NIRSpec"}
    /\ \E v \in BandInputs(cfg.inst) : Called("setBand", v, BandSetter(cfg, v))

\* inst.pixelscale = v: a plain attribute, no validation
setPixelScale ==
    \E v \in PixelscaleInputs(cfg.inst) :
        /\ calls < MaxCalls
        /\ calls' = calls + 1
        /\ cfg' = [cfg EXCEPT !.pixelscale = v]
        /\ last' = [op |-> "setPixelScale", arg |-> v, err |-> NoErr]
        /\ pinned' = TRUE
        /\ ops' = "any"
        /\ repeated' = (last.op = "setPixelScale" /\ last.arg = v)
        /\ UNCHANGED <<failed, aux>>

\* inst.auto_pupil = v: a plain attribute of the two classes whose filter setter
\* reads it
setAutoPupil ==
    \E v \in BOOLEAN :
        /\ cfg.inst \in {"MIRI", "NIRISS"}
        /\ calls < MaxCalls
        /\ calls' = calls + 1
        /\ cfg' = [cfg EXCEPT !.auto_pupil = v]
        /\ last' = [op |-> "setAutoPupil", arg |-> v, err |-> NoErr]
        /\ ops' = "any"
        /\ repeated' = (last.op = "setAutoPupil" /\ last.arg = v)
        /\ UNCHANGED <<pinned, failed, aux>>

Next ==
    \/ setDetector
    \/ setFilter
    \/ setImageMask
    \/ setPupilMask
    \/ setApertureName
    \/ setDetectorPixelPosition
    \/ setPositionFromApertureName
    \/ setMode
    \/ setBand
    \/ setPixelScale
    \/ setAutoPupil

Spec == Init /\ [][Next]_vars

-----------------------------------------------------------------------------
(* NIRCam alone, with the auto_channel switch: the calls that move the     *)
(* channel, the detector and the pixel scale.                              *)

\* nc.auto_channel = v: a plain attribute the filter setter reads
setAutoChannel ==
    \E v \in BOOLEAN :
        /\ cfg.inst = "NIRCam"
        /\ calls < MaxCalls
        /\ calls' = calls + 1
        /\ cfg' = [cfg EXCEPT !.auto_channel = v]
        /\ last' = [op |-> "setAutoChannel", arg |-> v, err |-> NoErr]
        /\ ops' = "any"
        /\ repeated' = (last.op = "setAutoChannel" /\ last.arg = v)
        /\ UNCHANGED <<pinned, failed, aux>>

InitChannel == Init /\ cfg.inst = "NIRCam"

NextChannel ==
    \/ setFilter
    \/ setDetector
    \/ setImageMask
    \/ setPupilMask
    \/ setApertureName
    \/ setPixelScale
    \/ setAutoChannel

SpecChannel == InitChannel /\ [][NextChannel]_vars

-----------------------------------------------------------------------------
(* The assembly of the optical system: the calls that select the optics,   *)
(* the options, and get_optical_system.                                    *)

\* d[k] = v on a dictionary
OptSet(d, k, v) == [x \in DOMAIN d \cup {k} |-> IF x = k THEN v ELSE d[x]]

\* option assignments: flags set and cleared, an option whose presence alone
\* counts set to False, the two options that default to True switched off
OptionInputs ==
    {<<"force_coron", TRUE>>, <<"no_sam", TRUE>>, <<"no_sam", FALSE>>,
     <<"force_fqpm_shift", FALSE>>, <<"coron_include_pre_lyot_plane", TRUE>>,
     <<"lrs_use_mft", FALSE>>, <<"ifualign_rotation", FALSE>>}

\* the options argument of get_optical_system
OptionsArguments ==
    {NoneOptions, GivenOptions(<< >>), GivenOptions(OptSet(<< >>, "force_coron", TRUE)),
     GivenOptions(OptSet(<< >>, "no_sam", TRUE)), GivenOptions(OptSet(<< >>, "defocus_waves", TRUE))}

OversampleInputs == {2}

\* inst.options[k] = v
setOption ==
    \E kv \in OptionInputs :
        /\ calls < MaxCalls
        /\ calls' = calls + 1
        /\ options' = OptSet(options, kv[1], kv[2])
        /\ last' = [op |-> "setOption", arg |-> kv, err |-> NoErr]
        /\ ops' = "any"
        /\ repeated' = (last.op = "setOption" /\ last.arg = kv)
        /\ UNCHANGED <<cfg, pinned, failed, osys, sam_ok, rest>>

\* inst.include_si_wfe = v
setIncludeSiWfe ==
    \E v \in BOOLEAN :
        /\ calls < MaxCalls
        /\ calls' = calls + 1
        /\ cfg' = [cfg EXCEPT !.include_si_wfe = v]
        /\ last' = [op |-> "setIncludeSiWfe", arg |-> v, err |-> NoErr]
        /\ ops' = "any"
        /\ repeated' = (last.op = "setIncludeSiWfe" /\ last.arg = v)
        /\ UNCHANGED <<pinned, failed, aux>>

\* get_optical_system, lines 491-494: a null string mask is set to None
NullMasksToNone(c) ==
    Then(IF c.image_mask = "" THEN ImageMaskSetter(c, None) ELSE Ok(c),
         LAMBDA c1 : IF c1.pupil_mask = "" THEN PupilMaskSetter(c1, None) ELSE Ok(c1))

getOpticalSystemStoringOptions ==
    \E g \in OptionsArguments, n \in OversampleInputs :
        /\ calls < MaxCalls
        /\ calls' = calls + 1
        /\ cfg' = NullMasksToNone(cfg).c
        /\ osys' = GetOpticalSystem(cfg', options, g, n, sam_ok)
        /\ options' = IF g.is_none THEN options ELSE g.dict
        /\ last' = [op |-> "getOpticalSystem", arg |-> <<n, g>>, err |-> osys'.err]
        /\ failed' = (failed \/ osys'.err # NoErr)
        /\ ops' = "any"
        /\ repeated' = (last.op = "getOpticalSystem" /\ last.arg = <<n, g>>)
        /\ UNCHANGED <<pinned, sam_ok, rest>>

\* inst.get_optical_system(fft_oversample=n, options=g)
getOpticalSystem ==
    \E g \in OptionsArguments, n \in OversampleInputs :
        /\ calls < MaxCalls
        /\ calls' = calls + 1
        /\ cfg' = NullMasksToNone(cfg).c
        /\ osys' = GetOpticalSystem(cfg', options, g, n, sam_ok)
        /\ last' = [op |-> "getOpticalSystem", arg |-> <<n, g>>, err |-> osys'.err]
        /\ failed' = (failed \/ osys'.err # NoErr)
        /\ ops' = "any"
        /\ repeated' = (last.op = "getOpticalSystem" /\ last.arg = <<n, g>>)
        /\ UNCHANGED <<pinned, options, sam_ok, rest>>

\* whether poppy.SemiAnalyticCoronagraph accepts the planes is open for NIRISS,
\* the one instrument whose optics ask for it
InitOptics ==
    /\ InitInstrument
    /\ SiafLoaded
    /\ NoResult
    /\ options = << >>
    /\ osys = NoOpticalSystem(None)
    /\ sam_ok \in (IF cfg.inst = "NIRISS" THEN BOOLEAN ELSE {FALSE})

NextOptics ==
    \/ setFilter
    \/ setImageMask
    \/ setPupilMask
    \/ setMode
    \/ setOption
    \/ setIncludeSiWfe
    \/ getOpticalSystem

SpecOptics == InitOptics /\ [][NextOptics]_vars

-----------------------------------------------------------------------------
(* The instruments with an integral field unit: mode, band and the         *)
(* wavelengths of the band.                                                *)

NLambdaInputs == {0, 1, 5}

\* inst.get_IFU_wavelengths(nlambda=n)
getIFUWavelengths ==
    \E n \in NLambdaInputs :
        /\ calls < MaxCalls
        /\ calls' = calls + 1
        /\ result' = GetIFUWavelengths(cfg, n)
        /\ last' = [op |-> "getIFUWavelengths", arg |-> n, err |-> result'.err]
        /\ failed' = (failed \/ result'.err # NoErr)
        /\ ops' = "any"
        /\ repeated' = (last.op = "getIFUWavelengths" /\ last.arg = n)
        /\ UNCHANGED <<cfg, pinned, opticsVars, siafVars>>

InitIFU == Init /\ cfg.inst \in {"MIRI", "NIRSpec"}

NextIFU ==
    \/ setMode
    \/ setBand
    \/ setApertureName
    \/ setDetector
    \/ setFilter
    \/ getIFUWavelengths

SpecIFU == InitIFU /\ [][NextIFU]_vars

-----------------------------------------------------------------------------
(* The formatting of the result of a computation.                          *)

OutputModes == {"oversampled", "detector", "both"}

\* the options of the computation: the output mode, and the switches that
\* are on unless the options turn them off
FormatOptions ==
    { OptSet(o, "output_mode", m) :
        m \in OutputModes,
        o \in {<< >>, OptSet(<< >>, "add_distortion", FALSE), OptSet(<< >>, "add_distortion", TRUE),
               OptSet(<< >>, "add_ipc", FALSE), OptSet(<< >>, "crop_psf", FALSE)} }

\* inst._calc_psf_format_output(result, options), result as propagated
calcPsfFormatOutput ==
    \E o \in FormatOptions :
        /\ calls < MaxCalls
        /\ calls' = calls + 1
        /\ result' = SVal(CalcPsfFormatOutput(cfg, RawResult, o))
        /\ last' = [op |-> "calcPsfFormatOutput", arg |-> o, err |-> NoErr]
        /\ ops' = "any"
        /\ repeated' = (last.op = "calcPsfFormatOutput" /\ last.arg = o)
        /\ UNCHANGED <<cfg, pinned, failed, opticsVars, siafVars>>

\* the oversampling of the result and the side length of its first image
OversampInputs == {1, 2, 4}

SizeInputs == {4, 5, 6, 8, 10, 12}

\* inst._get_fits_header(result, options)
getFitsHeader ==
    \E os \in OversampInputs, size \in SizeInputs :
        /\ calls < MaxCalls
        /\ calls' = calls + 1
        /\ result' = SVal(GetFitsHeader(cfg, os, size))
        /\ last' = [op |-> "getFitsHeader", arg |-> <<os, size>>, err |-> NoErr]
        /\ ops' = "any"
        /\ repeated' = (last.op = "getFitsHeader" /\ last.arg = <<os, size>>)
        /\ UNCHANGED <<cfg, pinned, failed, opticsVars, siafVars>>

NextFormat ==
    \/ setMode
    \/ setApertureName
    \/ setDetectorPixelPosition
    \/ calcPsfFormatOutput
    \/ getFitsHeader

SpecFormat == Init /\ [][NextFormat]_vars

-----------------------------------------------------------------------------
(* The names of the mirror segments.                                       *)

\* the names of the segments 1 to 18
SegmentNames ==
    <<"A1-1", "A2-2", "A3-3", "A4-4", "A5-5", "A6-6", "B1-7", "C1-8", "B2-9", "C2-10", "B3-11", "C3-12",
      "B4-13", "C4-14", "B5-15", "C5-16", "B6-17", "C6-18">>

\* integers in and around 1..19, the names of the segments, long and short,
\* names of the secondary mirror, numbers given as strings, and other strings
SegnameInputs ==
    {IntVal(n) : n \in -2..22}
    \cup {StrVal(SegmentNames[n]) : n \in 1..18}
    \cup {StrVal(Slice(SegmentNames[n], 0, 2)) : n \in 1..18}
    \cup {StrVal(s) : s \in {"SM", "SM-19", "SM19", "11", "0", "20", "", "A", "A7", "D1", "Bx"}}

\* segname(val)
callSegname ==
    \E val \in SegnameInputs :
        /\ calls < MaxCalls
        /\ calls' = calls + 1
        /\ result' = Segname(val)
        /\ last' = [op |-> "segname", arg |-> val, err |-> result'.err]
        /\ repeated' = FALSE
        /\ UNCHANGED <<cfg, pinned, failed, ops, opticsVars, siafVars>>

\* segname(name) of a name that segname has returned
callSegnameOnName ==
    /\ calls < MaxCalls
    /\ last.op = "segname"
    /\ last.err = NoErr
    /\ calls' = calls + 1
    /\ result' = Segname(StrVal(result.v))
    /\ last' = [op |-> "segname", arg |-> StrVal(result.v), err |-> result'.err]
    /\ repeated' = TRUE
    /\ UNCHANGED <<cfg, pinned, failed, ops, opticsVars, siafVars>>

NextSegname == callSegname \/ callSegnameOnName

SpecSegname == Init /\ [][NextSegname]_vars

-----------------------------------------------------------------------------
(* The field of view of the detector plane.                                *)

\* the options argument with and without the parity option
ParityArguments ==
    {NoneOptions} \cup {GivenOptions(OptSet(<< >>, "parity", v)) : v \in {"odd", "even", "Odd", "any"}}

\* fields of view in 1e-5 arcsec, square and rectangular
FovArcsecInputs == {<<200000>>, <<32500>>, <<200000, 300000>>}

FovPixelsInputs == {NoFov, <<31>>}

\* get_optical_system with the field of view given: the optical system and
\* the field of view of its detector plane
OpticalSystemWithFov(r, fov) ==
    IF r.err # NoErr THEN [r EXCEPT !.class = None] @@ [fov_pixels |-> NoFov]
    ELSE IF fov.err # NoErr THEN NoOpticalSystem(fov.err) @@ [fov_pixels |-> NoFov]
    ELSE r @@ [fov_pixels |-> fov.v]

\* inst.get_optical_system(fov_arcsec=a, fov_pixels=n, options=g)
getOpticalSystemFov ==
    \E g \in ParityArguments, a \in FovArcsecInputs, n \in FovPixelsInputs :
        /\ calls < MaxCalls
        /\ calls' = calls + 1
        /\ cfg' = NullMasksToNone(cfg).c
        /\ osys' = OpticalSystemWithFov(GetOpticalSystem(cfg', options, g, 2, sam_ok),
                                        FovPixels(cfg', IF g.is_none THEN options ELSE g.dict, a, n))
        /\ last' = [op |-> "getOpticalSystemFov", arg |-> <<g, a, n>>, err |-> osys'.err]
        /\ failed' = (failed \/ osys'.err # NoErr)
        /\ ops' = "any"
        /\ repeated' = (last.op = "getOpticalSystemFov" /\ last.arg = <<g, a, n>>)
        /\ UNCHANGED <<pinned, options, sam_ok, rest>>

NextFov ==
    \/ setPixelScale
    \/ setDetector
    \/ getOpticalSystemFov

SpecFov == Init /\ [][NextFov]_vars

-----------------------------------------------------------------------------
(* NIRCam with a bar occulter: the position along the bar.                 *)

BarMasks == {"MASKSWB", "MASKLWB"}

\* values of the bar_offset option: numbers, a numeral, named positions
BarOffsetInputs == {IntVal(3), IntVal(0), StrVal("1.5"), StrVal("narrow"), StrVal("F444W")}

BarApertureInputs ==
    {"NRCA4_MASKSWB_NARROW", "NRCA5_MASKLWB_F444W", "NRCA4_FSTAMASKSWB", "NRCA5_FULL_MASKLWB", "NRCA5_FULL"}

\* nc.options['bar_offset'] = v
setBarOffset ==
    \E v \in BarOffsetInputs :
        /\ calls < MaxCalls
        /\ calls' = calls + 1
        /\ options' = OptSet(options, "bar_offset", v)
        /\ last' = [op |-> "setBarOffset", arg |-> v, err |-> NoErr]
        /\ ops' = "any"
        /\ repeated' = (last.op = "setBarOffset" /\ last.arg = v)
        /\ UNCHANGED <<cfg, pinned, failed, osys, sam_ok, rest>>

setBarApertureName ==
    \E v \in BarApertureInputs : Called("setApertureName", v, AperturenameSetter(cfg, v))

\* nc = NIRCam(); nc.image_mask = m for a bar occulter m
InitBar ==
    /\ \E m \in BarMasks : cfg = ImageMaskSetter(Construct("NIRCam"), m).c
    /\ last = [op |-> "setImageMask", arg |-> cfg.image_mask, err |-> NoErr]
    /\ pinned = FALSE
    /\ failed = FALSE
    /\ ops = "any"
    /\ calls = 0
    /\ repeated = FALSE
    /\ SiafLoaded
    /\ NoResult
    /\ options = << >>
    /\ osys = NoOpticalSystem(None)
    /\ sam_ok = FALSE

NextBar ==
    \/ setFilter
    \/ setBarApertureName
    \/ setBarOffset
    \/ getOpticalSystem

SpecBar == InitBar /\ [][NextBar]_vars

-----------------------------------------------------------------------------
(* The setters with their call stack: every setter call is made on a       *)
(* configuration that counts the frames of the setters that call one       *)
(* another, and the deepest stack of the call is kept as the result.       *)

\* r is the outcome of the setter on Traced(cfg, d)
CalledTraced(op, arg, r) ==
    /\ calls < MaxCalls
    /\ calls' = calls + 1
    /\ cfg' = Untraced(r.c)
    /\ result' = SVal(r.c.deepest)
    /\ last' = [op |-> op, arg |-> arg, err |-> r.err]
    /\ failed' = (failed \/ r.err # NoErr)
    /\ ops' = Widest(ops, OpClass(op))
    /\ repeated' = (last.op = op /\ last.arg = arg /\ last.err = NoErr)
    /\ UNCHANGED <<pinned, opticsVars, siafVars>>

tracedSetDetector ==
    \E v \in DetectorInputs(cfg.inst) : CalledTraced("setDetector", v, DetectorSetter(Traced(cfg, 0), v))

tracedSetFilter ==
    \E v \in FilterInputs(cfg.inst) : CalledTraced("setFilter", v, FilterSetter(Traced(cfg, 0), v))

tracedSetImageMask ==
    \E v \in ImageMaskInputs(cfg.inst) : CalledTraced("setImageMask", v, ImageMaskSetter(Traced(cfg, 0), v))

tracedSetPupilMask ==
    \E v \in PupilMaskInputs(cfg.inst) : CalledTraced("setPupilMask", v, PupilMaskSetter(Traced(cfg, 0), v))

tracedSetApertureName ==
    \E v \in ApertureInputs(cfg.inst) :
        CalledTraced("setApertureName", v, AperturenameSetter(Traced(cfg, 0), v))

\* the mode setter is the first frame itself
tracedSetMode ==
    /\ cfg.inst \in {"MIRI", "NIRSpec"}
    /\ \E v \in ModeInputs : CalledTraced("setMode", v, ModeSetter(Traced(cfg, 1), v))

tracedSetBand ==
    /\ cfg.inst \in {"MIRI", "NIRSpec"}
    /\ \E v \in BandInputs(cfg.inst) : CalledTraced("setBand", v, BandSetter(Traced(cfg, 0), v))

NextTraced ==
    \/ tracedSetDetector
    \/ tracedSetFilter
    \/ tracedSetImageMask
    \/ tracedSetPupilMask
    \/ tracedSetApertureName
    \/ tracedSetMode
    \/ tracedSetBand

SpecTraced == Init /\ [][NextTraced]_vars

-----------------------------------------------------------------------------
(* Jitter: _apply_jitter blurs a result as the jitter option says.  Angles *)
(* are in units of 0.0001 arcsec.                                          *)

\* the documented width of the Gaussian kernel when the options give none
DefaultJitterSigma == 60

\* what a call of _apply_jitter leaves: self.options, the dictionary it
\* worked on, the header keywords it wrote
Jittered(o, local, header, err) == [options |-> o, local |-> local, header |-> header, err |-> err]

\* JWInstrument._apply_jitter(result, local_options); o is self.options
ApplyJitter(o, given) ==
    With(IF given.is_none THEN o ELSE given.dict, LAMBDA local :
        IF ~OptHas(local, "jitter") THEN Jittered(o, local, [JITRTYPE |-> "None"], NoErr)
        ELSE IF local["jitter"] = None THEN Jittered(o, local, << >>, NoErr)
        ELSE CASE Lower(local["jitter"]) = "gaussian" ->
                    Jittered(o, local,
                             [JITRTYPE |-> "Gaussian convolution",
                              JITRSIGM |-> OptGet(local, "jitter_sigma", DefaultJitterSigma)], NoErr)
               [] Lower(local["jitter"]) = "linear" ->
                    Jittered(o, local, [JITRTYPE |-> "Linear smear / drift", JITSMEAR |-> 1200], NoErr)
               [] Lower(local["jitter"]) = "pcs=coarse" ->
                    Jittered(o, local,
                             [JITRTYPE |-> "PCS Coarse, high fidelity MC model results",
                              JITRCASE |-> OptGet(local, "jitter_coarse_model_case", 2)], NoErr)
               [] Lower(local["jitter"]) = "pcs=coarse_like_itm" ->
                    With(OptSet(local, "jitter_sigma", 2000), LAMBDA written :
                        Jittered(IF given.is_none THEN written ELSE o, written,
                                 [JITRTYPE |-> "PCS Coarse, like ITM",
                                  JITRSIGM |-> written["jitter_sigma"], JITSMEAR |-> 4000], NoErr))
               [] Lower(local["jitter"]) = "custom" ->
                    IF ~OptHas(local, "jitter_kernel") \/ local["jitter_kernel"] # 2
                    THEN Jittered(o, local, << >>, "ValueError")
                    ELSE Jittered(o, local, [JITRTYPE |-> "Custom jitter kernel"], NoErr)
               [] OTHER -> Jittered(o, local, << >>, "ValueError"))

JitterKinds == {None, "gaussian", "linear", "PCS=Coarse", "PCS=Coarse_Like_ITM", "custom", "Gaussian", "none"}

\* jitter_sigma values; jitter_kernel is given by its number of dimensions
JitterOptionInputs ==
    {<<"jitter", k>> : k \in JitterKinds}
    \cup {<<"jitter_sigma", 50>>, <<"jitter_kernel", 2>>, <<"jitter_kernel", 1>>}

\* the local_options argument of _apply_jitter
JitterArguments ==
    {NoneOptions, GivenOptions(<< >>), GivenOptions(OptSet(<< >>, "jitter", "PCS=Coarse_Like_ITM")),
     GivenOptions(OptSet(<< >>, "jitter", "gaussian"))}

\* inst.options[k] = v
setJitterOption ==
    \E kv \in JitterOptionInputs :
        /\ calls < MaxCalls
        /\ calls' = calls + 1
        /\ options' = OptSet(options, kv[1], kv[2])
        /\ last' = [op |-> "setJitterOption", arg |-> kv, err |-> NoErr]
        /\ ops' = "any"
        /\ repeated' = (last.op = "setJitterOption" /\ last.arg = kv)
        /\ UNCHANGED <<cfg, pinned, failed, osys, sam_ok, rest>>

\* inst._apply_jitter(result, local_options=g) on a result just computed
applyJitter ==
    \E g \in JitterArguments :
        /\ calls < MaxCalls
        /\ calls' = calls + 1
        /\ options' = ApplyJitter(options, g).options
        /\ result' = [v |-> ApplyJitter(options, g).header, err |-> ApplyJitter(options, g).err]
        /\ last' = [op |-> "applyJitter", arg |-> g, err |-> result'.err]
        /\ failed' = (failed \/ result'.err # NoErr)
        /\ ops' = "any"
        /\ repeated' = (last.op = "applyJitter" /\ last.arg = g)
        /\ UNCHANGED <<cfg, pinned, osys, sam_ok, siafVars>>

\* JWInstrument.__init__, lines 832-833: Gaussian jitter of the typical width
InitJitter ==
    /\ InitInstrument
    /\ SiafLoaded
    /\ NoResult
    /\ options = [jitter |-> "gaussian", jitter_sigma |-> 8]
    /\ osys = NoOpticalSystem(None)
    /\ sam_ok = FALSE

NextJitter ==
    \/ setJitterOption
    \/ applyJitter

SpecJitter == InitJitter /\ [][NextJitter]_vars

-----------------------------------------------------------------------------
(* NIRISS with a pupil-plane element and the pupil shift options.          *)

ShiftMasks == {"MASK_NRM", "CLEARP", "GR700XD"}

\* pupil_shift_x and pupil_shift_y, in thousandths of the pupil
PupilShiftInputs == {<<k, v>> : k \in {"pupil_shift_x", "pupil_shift_y"}, v \in {0, 10, -5}}

\* inst.options[k] = v
setPupilShift ==
    \E kv \in PupilShiftInputs :
        /\ calls < MaxCalls
        /\ calls' = calls + 1
        /\ options' = OptSet(options, kv[1], kv[2])
        /\ last' = [op |-> "setPupilShift", arg |-> kv, err |-> NoErr]
        /\ ops' = "any"
        /\ repeated' = (last.op = "setPupilShift" /\ last.arg = kv)
        /\ UNCHANGED <<cfg, pinned, failed, osys, sam_ok, rest>>

setShiftPupilMask == \E v \in ShiftMasks : Called("setPupilMask", v, PupilMaskSetter(cfg, v))

InitShift == InitOptics /\ cfg.inst = "NIRISS" /\ sam_ok = FALSE

NextShift ==
    \/ setPupilShift
    \/ setShiftPupilMask
    \/ getOpticalSystem

SpecShift == InitShift /\ [][NextShift]_vars

-----------------------------------------------------------------------------
(* The cache of geometry tables: instruments constructed by several        *)
(* threads.  functools.lru_cache looks the name up and returns the cached  *)
(* table on a hit; on a miss it calls the wrapped function and stores the  *)
(* result afterwards, and other threads run while the function loads.      *)

\* a thread constructs an instrument named n: get_siaf_with_caching(n) looks
\* n up in the cache, and on a miss goes on to load the table
getSiafWithCaching ==
    \E t \in Threads, n \in Instruments :
        /\ calls < MaxCalls
        /\ thread[t].pc = "idle"
        /\ calls' = calls + 1
        /\ thread' = [thread EXCEPT ![t] = [pc |-> IF n \in siaf_cache THEN "idle" ELSE "loading", name |-> n]]
        /\ UNCHANGED <<object, opticsVars, result, siaf_cache, loads>>

\* the wrapped function runs, pysiaf.Siaf(instrname), and its result is stored
loadSiaf ==
    \E t \in Threads :
        /\ thread[t].pc = "loading"
        /\ loads' = [loads EXCEPT ![thread[t].name] = @ + 1]
        /\ siaf_cache' = siaf_cache \cup {thread[t].name}
        /\ thread' = [thread EXCEPT ![t].pc = "idle"]
        /\ UNCHANGED <<object, opticsVars, result, calls>>

NextSiaf == getSiafWithCaching \/ loadSiaf

SpecSiaf == Init /\ [][NextSiaf]_vars

-----------------------------------------------------------------------------
(* Vocabulary of the properties *)

\* the canonical form of a requested detector id: upper case, NIRCam '...LONG'
\* read as '...5', FGS 'GUIDER<n>' read as 'FGS<n>'
CanonicalDetector(inst, id) ==
    LET u == Upper(id)
    IN  IF inst = "NIRCam" /\ EndsWith(u, "LONG") THEN DropLast(u, 4) \o "5"
        ELSE IF inst = "FGS" /\ StartsWith(u, "GUIDER") THEN "FGS" \o SubSeq(u, 7, Len(u))
        ELSE u

\* the detector that governs a slit or compound aperture; a NIRSpec slit is
\* read out on either detector
GoverningDetectors(inst, aper) ==
    IF inst = "MIRI"
    THEN IF Siaf(inst)[aper].AperType = "SLIT" THEN {"MIRIM"}
         ELSE IF Ch(aper, 15) \in {"3", "4"} THEN {"MIRIFULONG"} ELSE {"MIRIFUSHORT"}
    ELSE detector_list(inst)

\* aper is an aperture valid for detector det
ApertureValidFor(inst, det, aper) ==
    /\ InSiaf(inst, aper)
    /\ IF Siaf(inst)[aper].AperType \in {"SLIT", "COMPOUND"}
       THEN det \in GoverningDetectors(inst, aper)
       ELSE StartsWith(aper, det \o "_")

\* the geometry-derived pixel scale of aperture aper while detector det is
\* selected: a plain aperture's own averaged X/Y scale, the scale of <det>_FULL
\* for a slit aperture, the cube-parameter spaxel size for a MIRI compound
\* aperture; NoGeom where the geometry table has no such entry
DerivedScale(inst, det, aper) ==
    IF ~InSiaf(inst, aper) THEN NoGeom
    ELSE LET ap == Siaf(inst)[aper]
             full == det \o "_FULL"
         IN  CASE ap.AperType = "COMPOUND" -> IFU_bands_cubepars[TakeLast(aper, 2)]
               [] ap.AperType = "SLIT" ->
                      IF InSiaf(inst, full) /\ Siaf(inst)[full].XSciScale # NoGeom
                      THEN (Siaf(inst)[full].XSciScale + Siaf(inst)[full].YSciScale) \div 2
                      ELSE NoGeom
               [] OTHER -> (ap.XSciScale + ap.YSciScale) \div 2

\* pixel dimensions of the instrument's detectors, as the position setter reads them
DetectorWidth(inst) == IF inst = "MIRI" THEN 1024 ELSE 2048

DetectorHeight(inst) == IF inst = "MIRI" THEN 1032 ELSE 2048

Succeeded(op) == last.op = op /\ last.err = NoErr

-----------------------------------------------------------------------------
\* C1: in every state reached from construction by successful calls of the
\* detector, filter, image-mask, pupil-mask, aperture-name, mode and band setters
\* and set_position_from_aperture_name, the aperture name is an aperture valid
\* for the current detector (slit and compound apertures: the governing detector
\* is the current detector).
C1_ApertureValidForDetector ==
    (~failed /\ ops \in {"core", "config"}) => ApertureValidFor(cfg.inst, cfg.detector, cfg.aper)

\* C2: in every state reached by successful setDetector, setFilter,
\* setImageMask, setPupilMask and setApertureName calls, the user never having
\* assigned pixelscale, the pixel scale is the geometry-derived scale of the
\* current aperture.
C2_PixelScaleIsDerived ==
    (~failed /\ ops = "core" /\ ~pinned) => cfg.pixelscale = DerivedScale(cfg.inst, cfg.detector, cfg.aper)

\* C3: in every reachable state the detector position (x, y) satisfies
\* 0 <= x <= width - 1 and 0 <= y <= height - 1 for the detector's dimensions.
C3_PositionWithinDetector ==
    /\ 0 <= cfg.pos[1] /\ cfg.pos[1] <= DetectorWidth(cfg.inst) - 1
    /\ 0 <= cfg.pos[2] /\ cfg.pos[2] <= DetectorHeight(cfg.inst) - 1

\* C3 witness: a setter that moves to another aperture has reset the position
\* from that aperture's reference pixel on the non-square detector
C3_Witness ==
    /\ cfg.inst = "MIRI" /\ Succeeded("setImageMask") /\ cfg.aper = "MIRIM_CORONLYOT"
    /\ cfg.pos = <<143, 149>>

\* C4: after a successful setDetector(D) the aperture name is an aperture valid
\* for the new detector D, never one left over from the previous detector.
C4_DetectorChangeResyncsAperture ==
    Succeeded("setDetector") => ApertureValidFor(cfg.inst, CanonicalDetector(cfg.inst, last.arg), cfg.aper)

MIRIBandDetector(band) == IF Ch(band, 1) \in {"3", "4"} THEN "MIRIFULONG" ELSE "MIRIFUSHORT"

Guarded(c) ==
    <<c.detector, c.aper, c.pixelscale, c.pos, c.rotation, c.mode, c.image_mask, c.pupil_mask>>

TransactionalOps ==
    {"setDetector", "setImageMask", "setPupilMask", "setDetectorPixelPosition", "setApertureName",
     "setFilter", "setMode", "setPositionFromApertureName"}

\* C7: every setter is transactional: when a call of the detector, image-mask,
\* pupil-mask, detector-position, aperture-name, filter or mode setter or of
\* set_position_from_aperture_name raises, also from inside a setter it cascades
\* into, the detector, aperture name, pixel scale, detector position, rotation,
\* mode and masks have the values they had before the call.
C7_FailedSetterLeavesStateUnchanged ==
    [][ (last'.op \in TransactionalOps /\ last'.err # NoErr) => Guarded(cfg') = Guarded(cfg) ]_vars

\* C8: setDetectorPixelPosition(x, y) succeeds and reads back exactly (x, y) when
\* 0 <= x < width and 0 <= y < height, and otherwise raises the validation error
\* and leaves the stored position unchanged; X and Y each use their own bound.
C8_PositionAcceptedIffInRange ==
    [][ last'.op = "setDetectorPixelPosition" =>
            LET x == last'.arg[1]
                y == last'.arg[2]
            IN  IF 0 <= x /\ x < DetectorWidth(cfg.inst) /\ 0 <= y /\ y < DetectorHeight(cfg.inst)
                THEN last'.err = NoErr /\ cfg'.pos = <<x, y>>
                ELSE last'.err = "OutOfBounds" /\ cfg'.pos = cfg.pos ]_vars

\* C8 witness: on the non-square detector the far corner was accepted after a
\* position one pixel beyond it in X was rejected
C8_Witness ==
    /\ cfg.inst = "MIRI" /\ Succeeded("setDetectorPixelPosition") /\ last.arg = <<1023, 1031>>
    /\ cfg.pos = <<1023, 1031>> /\ failed

\* C9: for every aperture name A of the geometry table that setApertureName
\* accepts, no custom pixel scale having been pinned, the pixel scale after
\* setApertureName(A) is the geometry-derived scale for A.
C9_ApertureNameSetsDerivedScale ==
    (Succeeded("setApertureName") /\ ~pinned /\ InSiaf(cfg.inst, last.arg)) =>
        cfg.pixelscale = DerivedScale(cfg.inst, cfg.detector, last.arg)

\* the user's pixel scale is custom: assigned directly and different from the
\* default of the current aperture
CustomScale(c, p) == p /\ c.pixelscale # DerivedScale(c.inst, c.detector, c.aper)

AperKind(inst, aper) == Siaf(inst)[aper].AperType

\* the NIRCam channel default a pinned value is taken for when the call moves
\* to an aperture of the other channel
OtherChannelDefault(old_det, new_det, scale) ==
    IF EndsWith(old_det, "5") = EndsWith(new_det, "5") THEN scale
    ELSE IF EndsWith(new_det, "5") /\ scale = pixelscale_short THEN pixelscale_long
    ELSE IF ~EndsWith(new_det, "5") /\ scale = pixelscale_long THEN pixelscale_short
    ELSE scale

ApertureConfig(c) == <<c.aper, c.detector, c.pos, c.pixelscale, c.rotation, c.mode, c.band>>

\* C11: setApertureName is idempotent: when setApertureName(A) has succeeded and
\* is called again with the same A, the second call succeeds and aperture name,
\* detector, detector position, pixel scale, rotation, mode and band are what
\* the first call left.
C11_SetApertureNameIdempotent ==
    [][ (Succeeded("setApertureName") /\ last'.op = "setApertureName" /\ last'.arg = last.arg) =>
            (last'.err = NoErr /\ ApertureConfig(cfg') = ApertureConfig(cfg)) ]_vars

\* C11 witness: the second of two identical calls that moved MIRI to an IFU
\* aperture, band and detector following
C11_Witness ==
    /\ repeated /\ Succeeded("setApertureName") /\ cfg.inst = "MIRI"
    /\ last.arg = "MIRIFU_CHANNEL3A" /\ cfg.aper = "MIRIFU_CHANNEL3A"
    /\ cfg.band = "3A" /\ cfg.detector = "MIRIFULONG"

\* C12: setApertureName(value) with a value that is not in the instrument's
\* geometry table raises the invalid-aperture error and leaves the aperture name
\* unchanged, on every instrument.
C12_UnknownApertureRejected ==
    [][ (last'.op = "setApertureName" /\ ~InSiaf(cfg.inst, last'.arg)) =>
            (last'.err = "InvalidAperture" /\ cfg'.aper = cfg.aper) ]_vars

\* the pixel of <det>_FULL that the reference sky position of a slit aperture
\* maps back to
SlitPixel(det, slit) ==
    <<PyInt(TelToSci(det \o "_FULL", slit)[1]), PyInt(TelToSci(det \o "_FULL", slit)[2])>>

\* C13: a slit aperture never gives the detector position from its own geometry
\* entry: setApertureName(slit) leaves the detector position unchanged, and a
\* successful set_position_from_aperture_name(slit) sets it to the pixel that the
\* slit's reference sky position maps back to through <detector>_FULL.
C13_SlitPositionThroughFullFrame ==
    [][ (/\ last'.op \in {"setApertureName", "setPositionFromApertureName"}
         /\ InSiaf(cfg.inst, last'.arg) /\ AperKind(cfg.inst, last'.arg) = "SLIT") =>
            /\ last'.op = "setApertureName" => cfg'.pos = cfg.pos
            /\ (last'.op = "setPositionFromApertureName" /\ last'.err = NoErr) =>
                   cfg'.pos = SlitPixel(cfg'.detector, last'.arg) ]_vars

\* C13 witness: set_position_from_aperture_name moved the position to the pixel
\* of a NIRSpec slit on the second detector
C13_Witness ==
    /\ Succeeded("setPositionFromApertureName") /\ last.arg = "NRS_S200B1_SLIT"
    /\ cfg.detector = "NRS2" /\ cfg.aper = "NRS_S200B1_SLIT" /\ cfg.pos = <<131, 1120>>

\* the catalog entries that name matches when letter case is ignored
ImageMaskMatches(inst, name) == {m \in image_mask_list(inst) : Upper(m) = Upper(name)}

\* C14: setImageMask(name) stores no mask for the empty string and for None; a
\* name that matches a catalog entry when letter case is ignored is accepted and
\* that entry is stored; every other name raises the invalid-mask error and the
\* stored image mask is unchanged.
C14_ImageMaskCaseInsensitive ==
    [][ last'.op = "setImageMask" =>
            IF last'.arg \in {"", None}
            THEN last'.err # "InvalidImageMask" /\ cfg'.image_mask = None
            ELSE IF ImageMaskMatches(cfg.inst, last'.arg) # {}
            THEN last'.err # "InvalidImageMask" /\ cfg'.image_mask \in ImageMaskMatches(cfg.inst, last'.arg)
            ELSE last'.err = "InvalidImageMask" /\ cfg'.image_mask = cfg.image_mask ]_vars

\* the setters after which the aperture synchroniser is specified to have run
SyncOps == {"setDetector", "setImageMask", "setPupilMask", "setFilter"}

\* an image mask with a registered aperture is selected
HasMaskAperture(c) ==
    CASE c.inst = "MIRI" -> c.image_mask \in DOMAIN image_mask_apertures("MIRI")
      [] c.inst = "NIRCam" -> c.image_mask \in DOMAIN aps_modA
      [] OTHER -> FALSE

\* the aperture registered for the selected image mask, on NIRCam for the
\* module of the current detector
MaskAperture(c) ==
    IF c.inst = "MIRI" THEN image_mask_apertures("MIRI")[c.image_mask]
    ELSE IF Ch(c.detector, 4) = "A" THEN aps_modA[c.image_mask] ELSE aps_modB[c.image_mask]

CoronPupil(pm) == pm # None /\ (Contains(pm, "LYOT") \/ Contains(pm, "MASK"))

\* the Lyot stops of the bar (wedge) occulters; the others are round
BarPupil(pm) == pm \in {"WEDGELYOT", "MASKSWB", "MASKLWB"}

\* the coronagraphic aperture of a module, a channel and a mask shape
CoronAperture(module, channel, bar) ==
    CASE module = "A" /\ channel = "long" /\ bar -> "NRCA5_FULL_WEDGE_BAR"
      [] module = "A" /\ channel = "long" /\ ~bar -> "NRCA5_FULL_WEDGE_RND"
      [] module = "A" /\ channel = "short" /\ bar -> "NRCA4_FULL_WEDGE_BAR"
      [] module = "A" /\ channel = "short" /\ ~bar -> "NRCA2_FULL_WEDGE_RND"
      [] module = "B" /\ channel = "long" /\ bar -> "NRCB5_MASKLWB"
      [] module = "B" /\ channel = "long" /\ ~bar -> "NRCB5_MASK335R"
      [] module = "B" /\ channel = "short" /\ bar -> "NRCB3_MASKSWB"
      [] module = "B" /\ channel = "short" /\ ~bar -> "NRCB1_MASK210R"

\* the call ran the NIRCam synchroniser: the detector and image-mask setters
\* always do, the pupil-mask setter when the value changes, the filter setter
\* when the channel changes
SynchroniserRan ==
    \/ last'.op \in {"setDetector", "setImageMask"}
    \/ last'.op = "setPupilMask" /\ cfg'.pupil_mask # cfg.pupil_mask
    \/ last'.op = "setFilter" /\ EndsWith(cfg'.detector, "5") # EndsWith(cfg.detector, "5")

\* C16: on NIRCam, when a successful setDetector, setImageMask, setPupilMask or
\* setFilter has run the synchroniser and leaves no image mask and a
\* coronagraphic pupil mask selected, the aperture name is the coronagraphic
\* aperture of the current module, the current channel and the shape of the
\* pupil mask (bar or round), never <detector>_FULL.
C16_PupilMaskSelectsCoronAperture ==
    [][ (/\ SynchroniserRan /\ last'.err = NoErr /\ cfg'.inst = "NIRCam"
         /\ cfg'.image_mask = None /\ CoronPupil(cfg'.pupil_mask)) =>
            cfg'.aper = CoronAperture(Ch(cfg'.detector, 4),
                                      IF EndsWith(cfg'.detector, "5") THEN "long" ELSE "short",
                                      BarPupil(cfg'.pupil_mask)) ]_vars

\* C17: after a successful setImageMask, setPupilMask, setDetector or setFilter
\* that leaves no image mask and no coronagraphic pupil mask selected, also when
\* an image mask that had moved the aperture has just been cleared, the aperture
\* name is the full-frame aperture of the current detector.
C17_NoMaskFallsBackToFullFrame ==
    [][ (/\ last'.op \in SyncOps /\ last'.err = NoErr
         /\ cfg'.image_mask = None /\ ~CoronPupil(cfg'.pupil_mask)) =>
            cfg'.aper = detectors(cfg'.inst)[cfg'.detector] ]_vars

\* what a resynchronisation of the aperture can move, and the pupil mask itself
PupilFrame(c) == <<c.aper, c.detector, c.pos, c.pixelscale, c.pupil_mask>>

\* C18: setPupilMask(name) with name equal to the selected pupil mask raises
\* nothing and leaves apertureName, detectorId, detectorPixelPosition, pixelScale
\* and the pupil mask unchanged; and the aperture is resynchronised only when the
\* selected pupil mask actually changes, so a call that leaves the pupil mask as
\* it was leaves the other four as they were.
C18_SetPupilMaskSameValueNoOp ==
    [][ last'.op = "setPupilMask" =>
            /\ last'.arg = cfg.pupil_mask => (last'.err = NoErr /\ PupilFrame(cfg') = PupilFrame(cfg))
            /\ cfg'.pupil_mask = cfg.pupil_mask => PupilFrame(cfg') = PupilFrame(cfg) ]_vars

\* C19: for MIRI in IFU mode with sub-band B selected, a setDetector,
\* setImageMask, setPupilMask or setFilter call leaves the selected sub-band
\* equal to B and the aperture name equal to the aperture of B.
C19_ResyncKeepsIFUBand ==
    [][ (/\ last'.op \in SyncOps
         /\ cfg.inst = "MIRI" /\ cfg.mode = "IFU" /\ cfg.band # None) =>
            (MIRIBand(cfg') = cfg.band /\ cfg'.aper = "MIRIFU_CHANNEL" \o cfg.band) ]_vars

\* the pupil mask MIRI pairs with a filter: the FQPM Lyot stop for a
\* coronagraphic filter whose number begins with 1, the plain Lyot stop for
\* any other coronagraphic filter, none otherwise
MIRIAutoPupil(f) ==
    IF ~EndsWith(f, "C") THEN None
    ELSE IF StartsWith(SubSeq(f, 2, Len(f)), "1") THEN "MASKFQPM"
    ELSE "MASKLYOT"

\* C20: for MIRI, a successful setFilter(f) with auto-pupil enabled leaves the
\* pupil mask that pairs with the selected filter; with auto-pupil disabled it
\* leaves the pupil mask unchanged.
C20_MIRIAutoPupilFollowsFilter ==
    [][ (last'.op = "setFilter" /\ last'.err = NoErr /\ cfg.inst = "MIRI") =>
            cfg'.pupil_mask = IF cfg.auto_pupil THEN MIRIAutoPupil(cfg'.filter) ELSE cfg.pupil_mask ]_vars

\* C20 witness: a lower-case Lyot coronagraph filter selected the plain Lyot stop
C20_Witness ==
    /\ Succeeded("setFilter") /\ cfg.inst = "MIRI" /\ cfg.auto_pupil
    /\ last.arg = "f2300c" /\ cfg.filter = "F2300C" /\ cfg.pupil_mask = "MASKLYOT"

\* the channel a NIRCam filter belongs to: long from 2.5 micron on, WLP4 read as 212
FilterChannel(f) ==
    IF (IF f = "WLP4" THEN 212 ELSE IntOf(Slice(f, 1, 4))) >= 250 THEN "long" ELSE "short"

\* the default pixel scale of a NIRCam channel
ChannelDefault(c, ch) == IF ch = "long" THEN c.pixelscale_long ELSE c.pixelscale_short

\* the pixel scale moved to the default of the channel entered only if it was
\* the default of the channel left
ScaleSwitchedOnlyFromDefault(c, d) ==
    (d.pixelscale # c.pixelscale /\ d.pixelscale = ChannelDefault(c, Channel(d))) =>
        c.pixelscale = ChannelDefault(c, Channel(c))

\* C21: for NIRCam with auto_channel on, a successful setFilter(f) leaves the
\* channel of f (long from 250 on, WLP4 as 212) on a detector of the same
\* module, and moves the pixel scale to the new channel's default only if it
\* was the old channel's default; a successful setDetector(d) leaves the
\* channel of d, with the same pixel scale rule, whatever auto_channel is.
C21_ChannelFollowsFilterAndDetector ==
    [][ /\ (last'.op = "setFilter" /\ last'.err = NoErr /\ cfg.auto_channel) =>
              /\ Channel(cfg') = FilterChannel(cfg'.filter)
              /\ Module(cfg') = Module(cfg)
              /\ ScaleSwitchedOnlyFromDefault(cfg, cfg')
        /\ (last'.op = "setDetector" /\ last'.err = NoErr) =>
              /\ Channel(cfg') = Channel([detector |-> CanonicalDetector("NIRCam", last'.arg)])
              /\ ScaleSwitchedOnlyFromDefault(cfg, cfg') ]_vars

\* the indices of the planes of a kind, and of a name
PlanesOfKind(planes, kind) == {i \in DOMAIN planes : planes[i].kind = kind}

PlanesNamed(planes, name) == {i \in DOMAIN planes : planes[i].name = name}

\* C22: an assembled plane stack has exactly one detector plane and exactly
\* one entrance-pupil plane, the entrance pupil precedes the exit-pupil
\* inversion, and the inversion precedes every rotation, also after the
\* instrument's optics were inserted at fixed indices or planes were removed
\* and added again.
C22_PlaneStackOrdering ==
    osys.err = NoErr =>
        /\ Cardinality(PlanesOfKind(osys.planes, "detector")) = 1
        /\ Cardinality(PlanesNamed(osys.planes, "JWST Entrance Pupil")) = 1
        /\ PlanesOfKind(osys.planes, "inversion") # {}
        /\ \A i \in PlanesNamed(osys.planes, "JWST Entrance Pupil"), j \in PlanesOfKind(osys.planes, "inversion") : i < j
        /\ \A j \in PlanesOfKind(osys.planes, "inversion"), k \in PlanesOfKind(osys.planes, "rotation") : j < k

\* a MIRI stack whose rotation and aberration planes were removed and added
\* again around the coronagraph optics
C22_Witness ==
    /\ osys.err = NoErr
    /\ cfg.inst = "MIRI"
    /\ cfg.image_mask # None
    /\ cfg.include_si_wfe
    /\ PlanesOfKind(osys.planes, "rotation") # {}
    /\ PlanesOfKind(osys.planes, "image") # {}

\* a NIRCam stack with planes inserted at indices 2 and 3
C22_WitnessInserted ==
    /\ osys.err = NoErr
    /\ cfg.inst = "NIRCam"
    /\ Len(osys.planes) >= 4
    /\ osys.planes[3].kind = "image"

UsedOptions == IF last.arg[2].is_none THEN options ELSE last.arg[2].dict

\* C25: for FGS every get_optical_system call that decides to add
\* instrument-internal optics fails with the error saying that the family
\* has no such optics (NotImplementedError), and returns no plane stack.
C25_FGSNotImplemented ==
    (cfg.inst = "FGS" /\ last.op = "getOpticalSystem" /\ WantsAdditionalOptics(cfg, UsedOptions))
        => (osys.err = "NotImplementedError" /\ osys.planes = << >>)

\* the instrument's optics report that the semi-analytic shortcut applies
SAMEligible ==
    /\ WantsAdditionalOptics(cfg, UsedOptions)
    /\ AddAdditionalOptics(cfg, options, EntrancePlanes(cfg, UsedOptions)).trySAM

\* C26: when the instrument's optics report eligibility for the semi-analytic
\* shortcut, it is attempted unless the no_sam option given for the
\* computation disables it, and then it is never attempted; when the attempt
\* fails, the full plane stack with its detector plane is returned and no
\* error reaches the caller.
C26_SemiAnalyticShortcut ==
    (last.op = "getOpticalSystem" /\ SAMEligible) =>
        /\ osys.err = NoErr
        /\ osys.tried = ~OptTrue(UsedOptions, "no_sam")
        /\ (osys.tried /\ ~sam_ok) =>
               (osys.class = "OpticalSystem" /\ PlanesOfKind(osys.planes, "detector") # {})

\* C24: the geometry table of an instrument name is loaded at most once per
\* process, also when several threads request a name that is not loaded yet:
\* only one of them runs the loader.
C24_SiafLoadedAtMostOnce == \A n \in Instruments : loads[n] <= 1

\* C27: what only applies in IFU mode fails at once and changes no
\* configuration while the instrument is not in IFU mode: get_IFU_wavelengths
\* raises whenever the mode is not IFU, and assigning a band other than None
\* raises whenever the mode is not IFU and leaves the band, the aperture and
\* the detector as they were.
C27_IFUOnlyOutsideIFUMode ==
    [][ /\ (last'.op = "getIFUWavelengths" /\ cfg.mode # "IFU") =>
              (last'.err = "RuntimeError" /\ cfg' = cfg)
        /\ (last'.op = "setBand" /\ cfg.mode # "IFU" /\ last'.arg # None) =>
              /\ last'.err # NoErr
              /\ cfg'.band = cfg.band /\ cfg'.aper = cfg.aper /\ cfg'.detector = cfg.detector
              /\ cfg' = cfg ]_vars

\* a MIRI band assigned in imaging mode was refused
C27_Witness ==
    /\ cfg.inst = "MIRI"
    /\ cfg.mode # "IFU"
    /\ last.op = "setBand"
    /\ last.arg = "3A"
    /\ last.err = "BandNotIFU"

\* the wavelengths of the band were refused outside IFU mode
C27_WitnessWavelengths ==
    /\ cfg.mode # "IFU"
    /\ last.op = "getIFUWavelengths"
    /\ last.err = "RuntimeError"

\* the extensions with corrected images, and the others
Corrected(r) == {i \in DOMAIN r : EndsWith(r[i].name, "DIST")}

Pristine(r) == DOMAIN r \ Corrected(r)

RecordedShifted == result.v.DET_X = 2 * cfg.pos[1] + 1 /\ result.v.DET_Y = 2 * cfg.pos[2] + 1

RecordedUnchanged == result.v.DET_X = 2 * cfg.pos[1] /\ result.v.DET_Y = 2 * cfg.pos[2]

\* C29 as stated: the recorded detector pixel position is the detector pixel
\* position plus 0.5 in X and Y exactly when the side length of the output
\* array is even, and the position unchanged when it is odd, for every
\* oversampling.
C29_ShiftWhenSideLengthEven ==
    last.op = "getFitsHeader" =>
        IF last.arg[2] % 2 = 0 THEN RecordedShifted ELSE RecordedUnchanged

\* C29 amended: the position is moved by 0.5 exactly when the side length
\* counted in detector pixels, the side length of the array divided by its
\* oversampling, is an even whole number; otherwise it is unchanged.
C29_ShiftWhenDetectorPixelsEven ==
    last.op = "getFitsHeader" =>
        IF last.arg[2] % (2 * last.arg[1]) = 0 THEN RecordedShifted ELSE RecordedUnchanged

\* an array of even side length that is an odd number of detector pixels wide
C29_Witness ==
    /\ last.op = "getFitsHeader"
    /\ last.arg = <<2, 10>>
    /\ cfg.pos # <<0, 0>>
    /\ RecordedUnchanged

\* what segname was called with: the integer n, a name of the segment n
CalledWithInt(n) == last.arg.int /\ last.arg.n = n

CalledWithName(n) == ~last.arg.int /\ last.arg.s \in {SegmentNames[n], Slice(SegmentNames[n], 0, 2)}

\* the first sentences of C30: the integer n, the short name and the name of
\* a segment give the name of the segment, a name that segname returned is
\* returned unchanged, and 19 and the names starting with SM give SM-19
SegnameCanonical ==
    /\ \A n \in 1..18 : (CalledWithInt(n) \/ CalledWithName(n)) => result = SVal(SegmentNames[n])
    /\ repeated => result = SVal(last.arg.s)
    /\ (CalledWithInt(19) \/ (~last.arg.int /\ StartsWith(last.arg.s, "SM"))) => result = SVal("SM-19")

\* C30: segname maps every accepted way of naming a mirror segment to one
\* name: for n in 1..18 the integer n, the short name and the name of the
\* segment give the same name, which segname returns unchanged; 19 and any
\* name starting with SM give SM-19; every integer outside 1..19 is rejected
\* with a ValueError.
C30_SegnameCanonicalOrValueError ==
    last.op = "segname" =>
        /\ SegnameCanonical
        /\ (last.arg.int /\ last.arg.n \notin 1..19) => result.err = "ValueError"

\* the plane after the exit-pupil inversion is the rotation by the negated angle
RotationFollowsInversion ==
    \E j \in PlanesOfKind(osys.planes, "inversion") :
        /\ j + 1 \in PlanesOfKind(osys.planes, "rotation")
        /\ osys.planes[j + 1].param = -cfg.rotation

\* the optics of MIRI were added to the stack
MIRIOpticsAdded == cfg.inst = "MIRI" /\ WantsAdditionalOptics(cfg, UsedOptions)

\* C31 as stated: whenever a rotation angle is set, the assembled stack has a
\* rotation plane with the negated angle immediately after the exit-pupil
\* inversion; when no rotation angle is set there is no rotation plane.
C31_RotationImmediatelyAfterInversion ==
    (last.op = "getOpticalSystem" /\ osys.err = NoErr) =>
        IF RotationIsNone(cfg) THEN PlanesOfKind(osys.planes, "rotation") = {}
        ELSE RotationFollowsInversion

\* C31 amended: whenever a rotation angle is set, the stack has a rotation
\* plane with the negated angle; it is the plane immediately after the
\* exit-pupil inversion unless the optics of MIRI were added, which move it
\* behind their image and pupil planes; when no rotation angle is set there is
\* no rotation plane.
C31_RotationNegatedAfterInversion ==
    (last.op = "getOpticalSystem" /\ osys.err = NoErr) =>
        IF RotationIsNone(cfg) THEN PlanesOfKind(osys.planes, "rotation") = {}
        ELSE IF ~MIRIOpticsAdded THEN RotationFollowsInversion
        ELSE \E k \in PlanesOfKind(osys.planes, "rotation") :
                /\ osys.planes[k].param = -cfg.rotation
                /\ osys.planes[k - 1].kind = "pupil"
                /\ \A i \in PlanesOfKind(osys.planes, "image") : i < k
                /\ ~RotationFollowsInversion

\* a MIRI stack whose rotation was moved behind the coronagraph optics
C31_Witness ==
    /\ last.op = "getOpticalSystem"
    /\ osys.err = NoErr
    /\ MIRIOpticsAdded
    /\ cfg.pupil_mask = "MASKFQPM"
    /\ ~RotationFollowsInversion

\* an image mask or a pupil mask is selected, the force_coron option of the
\* computation is true, or the name of the filter contains WL
OpticsRequested ==
    \/ cfg.image_mask # None
    \/ cfg.pupil_mask # None
    \/ OptTrue(UsedOptions, "force_coron")
    \/ Contains(cfg.filter, "WL")

\* the detector plane get_optical_system adds last
DetectorPlane == Plane("detector", cfg.inst \o " detector", cfg.pixelscale * last.arg[1])

\* C32: the assembler calls the optics of the instrument exactly when an
\* image mask or a pupil mask is selected, the force_coron option is true, or
\* the name of the filter contains WL: then the stack (or the error) is the
\* one these optics return; in every other configuration the stack has the
\* entrance planes and the detector plane only and the semi-analytic shortcut
\* is not tried.
C32_DelegatesExactlyWhenRequested ==
    last.op = "getOpticalSystem" =>
        IF OpticsRequested
        THEN LET r == AddAdditionalOptics(cfg, options, EntrancePlanes(cfg, UsedOptions))
             IN  /\ osys.err = r.err
                 /\ r.err = NoErr => osys.planes = Append(r.planes, DetectorPlane)
        ELSE /\ osys.err = NoErr
             /\ osys.planes = Append(EntrancePlanes(cfg, UsedOptions), DetectorPlane)
             /\ ~osys.tried
             /\ osys.class = "OpticalSystem"

\* the optics of NIRCam were called for the weak lens filter alone
C32_Witness ==
    /\ last.op = "getOpticalSystem"
    /\ osys.err = NoErr
    /\ cfg.filter = "WLP4"
    /\ cfg.image_mask = None /\ cfg.pupil_mask = None
    /\ ~OptTrue(UsedOptions, "force_coron")
    /\ PlanesNamed(osys.planes, "WLP4") # {}

\* the arguments of the last get_optical_system call with a field of view
FovParity ==
    IF OptHas(IF last.arg[1].is_none THEN options ELSE last.arg[1].dict, "parity")
    THEN Lower((IF last.arg[1].is_none THEN options ELSE last.arg[1].dict)["parity"]) ELSE None

\* n is the quotient a / b rounded to a nearest whole number
IsRounded(n, a, b) == 2 * b * n - b <= 2 * a /\ 2 * a <= 2 * b * n + b

\* C33: when the field of view in pixels is not given, it is the rounded
\* quotient of the angular field of view by the pixel scale, changed by
\* exactly one pixel if and only if the parity option is 'odd' or 'even' and
\* the rounded value has the other parity, so that the result has the parity
\* asked for; when it is given it is used unchanged whatever the parity option.
C33_FovPixelsParity ==
    last.op = "getOpticalSystemFov" =>
        LET a == last.arg[2]
            n == last.arg[3]
        IN  /\ osys.err = NoErr
            /\ IF n # NoFov THEN osys.fov_pixels = n
               ELSE /\ Len(osys.fov_pixels) = Len(a)
                    /\ \A i \in DOMAIN a :
                          LET p == osys.fov_pixels[i]
                          IN  /\ FovParity = "odd" => p % 2 = 1
                              /\ FovParity = "even" => p % 2 = 0
                              /\ \/ IsRounded(p, a[i], cfg.pixelscale)
                                 \/ /\ FovParity \in {"odd", "even"}
                                    /\ IsRounded(p - 1, a[i], cfg.pixelscale)
                                    /\ (p - 1) % 2 = (IF FovParity = "odd" THEN 0 ELSE 1)
                              /\ FovParity \notin {"odd", "even"} => IsRounded(p, a[i], cfg.pixelscale)

\* the image plane of the bar occulter in the last optical system
BarPlane ==
    osys.planes[CHOOSE i \in DOMAIN osys.planes :
                    osys.planes[i].kind = "image" /\ osys.planes[i].name = cfg.image_mask]

BarSystemBuilt ==
    /\ last.op = "getOpticalSystem"
    /\ osys.err = NoErr
    /\ cfg.image_mask \in BarMasks

\* the aperture name carries a mask marker and ends in NARROW or a filter name
ApertureNamesPosition ==
    /\ Contains(cfg.aper, "MASK")
    /\ \/ SplitLast(cfg.aper) = "NARROW"
       \/ \E i \in DOMAIN filter_list("NIRCam") : filter_list("NIRCam")[i] = SplitLast(cfg.aper)

\* C34: for the NIRCam bar occulters the offset along the bar is resolved by
\* priority: a numeric bar_offset option is the offset; a non-numeric one is
\* the named position; with no option, an aperture name that contains a mask
\* marker and ends in NARROW or a filter name selects the position by that
\* part; otherwise the current filter selects it.
C34_BarOffsetPriority ==
    BarSystemBuilt =>
        IF "bar_offset" \in DOMAIN options
        THEN IF IsFloat(options["bar_offset"])
             THEN BarPlane.bar_offset = options["bar_offset"] /\ BarPlane.auto_offset = None
             ELSE BarPlane.bar_offset = NoValue /\ BarPlane.auto_offset = options["bar_offset"].s
        ELSE /\ BarPlane.bar_offset = NoValue
             /\ IF ApertureNamesPosition THEN Upper(BarPlane.auto_offset) = SplitLast(cfg.aper)
                ELSE BarPlane.auto_offset = cfg.filter

\* C35: every setter call terminates: the setters that call one another reach
\* a fixed point after a bounded number of nested calls from every reachable
\* configuration; the call stack never fills, so no call ends in the
\* RecursionError of an unbounded mutual recursion.
C35_SettersTerminate ==
    last.op # "construct" => (last.err # "RecursionError" /\ result.v < RecursionLimit)

\* a setter call that went through nested setter calls and returned
C35_Witness ==
    /\ last.op = "setImageMask"
    /\ last.err = NoErr
    /\ cfg.inst = "MIRI"
    /\ result.v >= 4

\* apertureName is an integral-field aperture of the instrument
IntegralFieldAperture ==
    IF cfg.inst = "MIRI" THEN StartsWith(cfg.aper, "MIRIFU") ELSE Contains(cfg.aper, "IFU")

\* C36: for MIRI and NIRSpec, in every state reached by successful setter
\* calls the mode is IFU exactly when apertureName is an integral-field
\* aperture, and imaging otherwise.
C36_ModeFollowsAperture ==
    (cfg.inst \in {"MIRI", "NIRSpec"} /\ ~failed)
        => /\ cfg.mode \in {"IFU", "imaging"}
           /\ (cfg.mode = "IFU") <=> IntegralFieldAperture

\* the planes that get_optical_system assembles before the optics of the family
EntrancePlaneNames == {"JWST Entrance Pupil", "OTE exit pupil", "Rotation", "SI WFE", "Defocus"}

\* C37: for MIRI, whenever the optics of the family are spliced in, the plane
\* taken from stack index 2 is the rotation and, when the instrument wavefront
\* error is included, the next plane taken is the aberration plane, for every
\* option set including defocus (the defocus lens stays in the stack); the
\* result has exactly one rotation plane, behind the image-plane and
\* pupil-mask planes, and the aberration plane follows that rotation and
\* precedes the detector.
C37_MIRIRotationMovedBehindOptics ==
    (last.op = "getOpticalSystem" /\ osys.err = NoErr /\ MIRIOpticsAdded) =>
        LET planes == osys.planes
            r == CHOOSE k \in PlanesOfKind(planes, "rotation") : TRUE
        IN  /\ Cardinality(PlanesOfKind(planes, "rotation")) = 1
            /\ planes[r].param = -cfg.rotation
            /\ planes[1].name = "JWST Entrance Pupil" /\ planes[2].kind = "inversion"
            /\ Cardinality(PlanesNamed(planes, "Defocus")) = IF "defocus_waves" \in DOMAIN UsedOptions THEN 1 ELSE 0
            /\ \A i \in DOMAIN planes :
                  (planes[i].kind \in {"image", "pupil"} /\ planes[i].name \notin EntrancePlaneNames) => i < r
            /\ PlanesNamed(planes, "Defocus") \cup PlanesNamed(planes, "JWST Entrance Pupil") \subseteq 1..(r - 1)
            /\ IF cfg.include_si_wfe
               THEN PlanesNamed(planes, "SI WFE") = {r + 1} /\ PlanesOfKind(planes, "detector") = {r + 2}
               ELSE PlanesNamed(planes, "SI WFE") = {} /\ PlanesOfKind(planes, "detector") = {r + 1}

\* a MIRI coronagraph stack with aberrations and a defocus lens
C37_Witness ==
    /\ last.op = "getOpticalSystem"
    /\ osys.err = NoErr
    /\ MIRIOpticsAdded
    /\ cfg.include_si_wfe
    /\ "defocus_waves" \in DOMAIN UsedOptions
    /\ cfg.image_mask # None
    /\ PlanesNamed(osys.planes, "Defocus") = {3}

\* C38: applying jitter to a result never changes the options of the
\* instrument: for every jitter kind the options map, in particular
\* jitter_sigma, has the same content after _apply_jitter as before.
C38_JitterLeavesOptions == [][last'.op = "applyJitter" => options' = options]_vars

\* the pupil-plane element of NIRISS in the last optical system
ShiftedPlane ==
    osys.planes[CHOOSE i \in DOMAIN osys.planes :
                    osys.planes[i].kind = "pupil" /\ osys.planes[i].name = cfg.pupil_mask]

\* the configured pupil shift along an axis, zero when unset
ConfiguredShift(k) == IF k \in DOMAIN options THEN options[k] ELSE 0

\* C39: for every NIRISS pupil-plane element added by the optics of the
\* family (MASK_NRM, CLEARP, GR700XD) the X shift of the element is the
\* configured pupil X shift and its Y shift the configured pupil Y shift
\* (as lengths on the pupil), and both are absent when both configured shifts
\* are zero or unset.
C39_PupilShiftPerAxis ==
    (last.op = "getOpticalSystem" /\ osys.err = NoErr /\ cfg.inst = "NIRISS" /\ cfg.pupil_mask \in ShiftMasks)
        => IF ConfiguredShift("pupil_shift_x") = 0 /\ ConfiguredShift("pupil_shift_y") = 0
           THEN ShiftedPlane.shift_x = NoShift /\ ShiftedPlane.shift_y = NoShift
           ELSE /\ ShiftedPlane.shift_x = Shift(ConfiguredShift("pupil_shift_x") * JWST_CIRCUMSCRIBED_DIAMETER)
                /\ ShiftedPlane.shift_y = Shift(ConfiguredShift("pupil_shift_y") * JWST_CIRCUMSCRIBED_DIAMETER)

TypeOK ==
    /\ cfg.inst \in Instruments
    /\ cfg.detector \in detector_list(cfg.inst)

====
